---------------------------- MODULE Spec2Model ----------------------------
(***************************************************************************)
(* Inferno search: the /api/search proxy route (two versions of route.ts)  *)
(* and the Home page of the UI, as state machines.                         *)
(*                                                                         *)
(* Text is a TLA+ string; an absent query parameter or object field is     *)
(* NULL.  A JavaScript number is a record: Num(n) or NaN.  A result list   *)
(* is represented by its length: the handlers map over the elements,       *)
(* concatenate and slice lists, and never look inside an element to decide *)
(* a status or a page count.                                               *)
(***************************************************************************)
EXTENDS Integers, Sequences, FiniteSets, TLC

\* ------------------------------------------------------------------------
\* JavaScript values
\* ------------------------------------------------------------------------

\* null / undefined: what searchParams.get gives for an absent parameter.
NULL == "<null>"

\* A JavaScript number that may be NaN.
NaN == [nan |-> TRUE]
Num(n) == [nan |-> FALSE, val |-> n]
IsNaN(x) == x.nan

\* Truthiness of a string-or-null: null and "" are falsy.
Truthy(t) == t # NULL /\ t # ""

\* a || b on strings-or-null.
OrElse(t, d) == IF Truthy(t) THEN t ELSE d

\* Comparisons on numbers: every comparison with NaN is false.
JsLt(a, b) == ~IsNaN(a) /\ ~IsNaN(b) /\ a.val < b.val
JsLe(a, b) == ~IsNaN(a) /\ ~IsNaN(b) /\ a.val <= b.val
JsGt(a, b) == ~IsNaN(a) /\ ~IsNaN(b) /\ a.val > b.val

\* Arithmetic on numbers: NaN is absorbing.
JsSub(a, b) == IF IsNaN(a) \/ IsNaN(b) THEN NaN ELSE Num(a.val - b.val)
JsMul(a, b) == IF IsNaN(a) \/ IsNaN(b) THEN NaN ELSE Num(a.val * b.val)

\* Math.ceil(n / d) for an integer n and d > 0 (\div rounds down).
CeilDiv(n, d) == -((-n) \div d)

\* Math.min on integers.
Min(a, b) == IF a <= b THEN a ELSE b

\* JSON.stringify of a number inside a response body: NaN becomes null,
\* which is no number for the client either.
JsonNull == [nan |-> TRUE, null |-> TRUE]
ToJson(x) == IF IsNaN(x) THEN JsonNull ELSE x

\* A value of a provider's JSON reply that the handlers test for truthiness
\* and turn into text: absent, a number or a string.
JAbsent == [t |-> "absent"]
JNum(n) == [t |-> "num", val |-> n]
JStr(s) == [t |-> "str", str |-> s]

JTruthy(v) ==
    CASE v.t = "absent" -> FALSE
      [] v.t = "num"    -> v.val # 0
      [] v.t = "str"    -> v.str # ""

\* String(v) / v.toString() of a present value.
JString(v) == IF v.t = "num" THEN ToString(v.val) ELSE v.str

\* An object as a function from its keys: set a key, delete a key.
Put(obj, k, v) == (k :> v) @@ obj
Delete(obj, k) == [x \in (DOMAIN obj) \ {k} |-> obj[x]]
Has(obj, k) == k \in DOMAIN obj

\* ------------------------------------------------------------------------
\* Strings
\* ------------------------------------------------------------------------

UpperLetters == "ABCDEFGHIJKLMNOPQRSTUVWXYZ"
LowerLetters == "abcdefghijklmnopqrstuvwxyz"
DecDigits == "0123456789"

\* Index of one-character string c in alphabet a, 0 when it is not there.
RECURSIVE IndexIn(_, _, _)
IndexIn(c, a, i) ==
    IF i > Len(a) THEN 0
    ELSE IF SubSeq(a, i, i) = c THEN i
    ELSE IndexIn(c, a, i + 1)

IsUpper(c) == IndexIn(c, UpperLetters, 1) > 0
IsLower(c) == IndexIn(c, LowerLetters, 1) > 0
IsDigit(c) == IndexIn(c, DecDigits, 1) > 0
IsSpace(c) == c \in {" ", "\t", "\n", "\r"}

LowerChar(c) ==
    LET i == IndexIn(c, UpperLetters, 1)
    IN  IF i > 0 THEN SubSeq(LowerLetters, i, i) ELSE c

UpperChar(c) ==
    LET i == IndexIn(c, LowerLetters, 1)
    IN  IF i > 0 THEN SubSeq(UpperLetters, i, i) ELSE c

\* String.prototype.toLowerCase / toUpperCase (ASCII letters).
RECURSIVE toLowerCase(_)
toLowerCase(s) ==
    IF s = "" THEN "" ELSE LowerChar(Head(s)) \o toLowerCase(Tail(s))

RECURSIVE toUpperCase(_)
toUpperCase(s) ==
    IF s = "" THEN "" ELSE UpperChar(Head(s)) \o toUpperCase(Tail(s))

\* String.prototype.trim.
RECURSIVE TrimStart(_)
TrimStart(s) ==
    IF s # "" /\ IsSpace(Head(s)) THEN TrimStart(Tail(s)) ELSE s

RECURSIVE TrimEnd(_)
TrimEnd(s) ==
    IF s # "" /\ IsSpace(SubSeq(s, Len(s), Len(s)))
    THEN TrimEnd(SubSeq(s, 1, Len(s) - 1))
    ELSE s

trim(s) == TrimEnd(TrimStart(s))

\* String.prototype.startsWith / includes.
startsWith(s, t) == Len(t) <= Len(s) /\ SubSeq(s, 1, Len(t)) = t

includes(s, t) ==
    \E i \in 0..(Len(s) - Len(t)) : SubSeq(s, i + 1, i + Len(t)) = t

\* /^[A-Z]{3}$/i.test(s)
IsThreeLetters(s) ==
    /\ Len(s) = 3
    /\ \A i \in 1..3 : IsUpper(SubSeq(s, i, i)) \/ IsLower(SubSeq(s, i, i))

\* Longest prefix of s made of characters of alphabet a.
RECURSIVE PrefixIn(_, _)
PrefixIn(s, a) ==
    IF s # "" /\ IndexIn(Head(s), a, 1) > 0
    THEN Head(s) \o PrefixIn(Tail(s), a)
    ELSE ""

\* Value of a string of digits in the given radix (alphabet a lists the
\* digits in order; letters are looked up in lower case).
RECURSIVE DigitsValue(_, _, _, _)
DigitsValue(s, a, radix, acc) ==
    IF s = "" THEN acc
    ELSE DigitsValue(Tail(s), a, radix,
                     acc * radix + IndexIn(LowerChar(Head(s)), a, 1) - 1)

HexDigits == "0123456789abcdef"
HexDigitsAnyCase == "0123456789abcdefABCDEF"

\* parseInt(s) with no radix: leading white space, an optional sign, an
\* optional 0x prefix, then the longest run of digits; NaN when there is none.
parseInt(s) ==
    LET t    == TrimStart(s)
        neg  == t # "" /\ Head(t) = "-"
        u    == IF t # "" /\ Head(t) \in {"-", "+"} THEN Tail(t) ELSE t
        hex  == startsWith(u, "0x") \/ startsWith(u, "0X")
        body == IF hex THEN Tail(Tail(u)) ELSE u
        ds   == IF hex THEN PrefixIn(body, HexDigitsAnyCase)
                ELSE PrefixIn(body, DecDigits)
        v    == IF hex THEN DigitsValue(ds, HexDigits, 16, 0)
                ELSE DigitsValue(ds, DecDigits, 10, 0)
    IN  IF ds = "" THEN NaN ELSE Num(IF neg THEN -v ELSE v)

\* s.replace(/[,\s]/g, '')
RECURSIVE StripCommasAndSpaces(_)
StripCommasAndSpaces(s) ==
    IF s = "" THEN ""
    ELSE IF Head(s) = "," \/ IsSpace(Head(s))
         THEN StripCommasAndSpaces(Tail(s))
         ELSE Head(s) \o StripCommasAndSpaces(Tail(s))

\* ------------------------------------------------------------------------
\* lib/airports: the static airport table and its lookups
\* ------------------------------------------------------------------------

airports == <<
    [code |-> "JFK", name |-> "John F. Kennedy International Airport", city |-> "New York", country |-> "US"],
    [code |-> "LGA", name |-> "LaGuardia Airport", city |-> "New York", country |-> "US"],
    [code |-> "EWR", name |-> "Newark Liberty International Airport", city |-> "New York", country |-> "US"],
    [code |-> "LAX", name |-> "Los Angeles International Airport", city |-> "Los Angeles", country |-> "US"],
    [code |-> "SFO", name |-> "San Francisco International Airport", city |-> "San Francisco", country |-> "US"],
    [code |-> "ORD", name |-> "O'Hare International Airport", city |-> "Chicago", country |-> "US"],
    [code |-> "MDW", name |-> "Midway International Airport", city |-> "Chicago", country |-> "US"],
    [code |-> "MIA", name |-> "Miami International Airport", city |-> "Miami", country |-> "US"],
    [code |-> "DFW", name |-> "Dallas/Fort Worth International Airport", city |-> "Dallas", country |-> "US"],
    [code |-> "DEN", name |-> "Denver International Airport", city |-> "Denver", country |-> "US"],
    [code |-> "ATL", name |-> "Hartsfield-Jackson Atlanta International Airport", city |-> "Atlanta", country |-> "US"],
    [code |-> "SEA", name |-> "Seattle-Tacoma International Airport", city |-> "Seattle", country |-> "US"],
    [code |-> "LAS", name |-> "McCarran International Airport", city |-> "Las Vegas", country |-> "US"],
    [code |-> "PHX", name |-> "Phoenix Sky Harbor International Airport", city |-> "Phoenix", country |-> "US"],
    [code |-> "BOS", name |-> "Logan International Airport", city |-> "Boston", country |-> "US"],
    [code |-> "MSP", name |-> "Minneapolis-Saint Paul International Airport", city |-> "Minneapolis", country |-> "US"],
    [code |-> "DTW", name |-> "Detroit Metropolitan Wayne County Airport", city |-> "Detroit", country |-> "US"],
    [code |-> "PHL", name |-> "Philadelphia International Airport", city |-> "Philadelphia", country |-> "US"],
    [code |-> "CLT", name |-> "Charlotte Douglas International Airport", city |-> "Charlotte", country |-> "US"],
    [code |-> "IAH", name |-> "George Bush Intercontinental Airport", city |-> "Houston", country |-> "US"],
    [code |-> "HOU", name |-> "William P. Hobby Airport", city |-> "Houston", country |-> "US"],
    [code |-> "LHR", name |-> "London Heathrow Airport", city |-> "London", country |-> "UK"],
    [code |-> "LGW", name |-> "London Gatwick Airport", city |-> "London", country |-> "UK"],
    [code |-> "CDG", name |-> "Charles de Gaulle Airport", city |-> "Paris", country |-> "FR"],
    [code |-> "ORY", name |-> "Orly Airport", city |-> "Paris", country |-> "FR"],
    [code |-> "FRA", name |-> "Frankfurt Airport", city |-> "Frankfurt", country |-> "DE"],
    [code |-> "AMS", name |-> "Amsterdam Airport Schiphol", city |-> "Amsterdam", country |-> "NL"],
    [code |-> "MAD", name |-> "Madrid-Barajas Airport", city |-> "Madrid", country |-> "ES"],
    [code |-> "BCN", name |-> "Barcelona-El Prat Airport", city |-> "Barcelona", country |-> "ES"],
    [code |-> "FCO", name |-> "Leonardo da Vinci International Airport", city |-> "Rome", country |-> "IT"],
    [code |-> "MXP", name |-> "Malpensa Airport", city |-> "Milan", country |-> "IT"],
    [code |-> "ZUR", name |-> "Zurich Airport", city |-> "Zurich", country |-> "CH"],
    [code |-> "VIE", name |-> "Vienna International Airport", city |-> "Vienna", country |-> "AT"],
    [code |-> "CPH", name |-> "Copenhagen Airport", city |-> "Copenhagen", country |-> "DK"],
    [code |-> "ARN", name |-> "Stockholm Arlanda Airport", city |-> "Stockholm", country |-> "SE"],
    [code |-> "OSL", name |-> "Oslo Airport", city |-> "Oslo", country |-> "NO"],
    [code |-> "NRT", name |-> "Narita International Airport", city |-> "Tokyo", country |-> "JP"],
    [code |-> "HND", name |-> "Haneda Airport", city |-> "Tokyo", country |-> "JP"],
    [code |-> "ICN", name |-> "Incheon International Airport", city |-> "Seoul", country |-> "KR"],
    [code |-> "PEK", name |-> "Beijing Capital International Airport", city |-> "Beijing", country |-> "CN"],
    [code |-> "PVG", name |-> "Shanghai Pudong International Airport", city |-> "Shanghai", country |-> "CN"],
    [code |-> "HKG", name |-> "Hong Kong International Airport", city |-> "Hong Kong", country |-> "HK"],
    [code |-> "SIN", name |-> "Singapore Changi Airport", city |-> "Singapore", country |-> "SG"],
    [code |-> "BKK", name |-> "Suvarnabhumi Airport", city |-> "Bangkok", country |-> "TH"],
    [code |-> "KUL", name |-> "Kuala Lumpur International Airport", city |-> "Kuala Lumpur", country |-> "MY"],
    [code |-> "YYZ", name |-> "Toronto Pearson International Airport", city |-> "Toronto", country |-> "CA"],
    [code |-> "YVR", name |-> "Vancouver International Airport", city |-> "Vancouver", country |-> "CA"],
    [code |-> "YUL", name |-> "Montreal-Pierre Elliott Trudeau International Airport", city |-> "Montreal", country |-> "CA"],
    [code |-> "SYD", name |-> "Sydney Kingsford Smith Airport", city |-> "Sydney", country |-> "AU"],
    [code |-> "MEL", name |-> "Melbourne Airport", city |-> "Melbourne", country |-> "AU"]
>>

\* The result of a lookup that found nothing (null).
NoAirport == [code |-> NULL, name |-> NULL, city |-> NULL, country |-> NULL]

\* The table with every field in lower case, as the lookups compare it.
airportsLower ==
    [i \in 1..Len(airports) |->
        [code |-> toLowerCase(airports[i].code),
         name |-> toLowerCase(airports[i].name),
         city |-> toLowerCase(airports[i].city)]]

\* Variant of FirstAirport: the last of the hits in table order.
FirstAirport_last(hits) ==
    IF hits = {} THEN NoAirport
    ELSE airports[CHOOSE i \in hits : \A j \in hits : i >= j]

\* Array.prototype.find over the table, hits being the positions of the
\* entries that pass the test: the first of them in table order, or null.
FirstAirport(hits) ==
    IF hits = {} THEN NoAirport
    ELSE airports[CHOOSE i \in hits : \A j \in hits : i <= j]

findAirportByInput(input) ==
    IF ~Truthy(input) \/ Len(trim(input)) = 0 THEN NoAirport
    ELSE
      LET searchTerm == toLowerCase(trim(input))
          table == airportsLower
          exactCodeMatch ==
              FirstAirport({ i \in DOMAIN table : table[i].code = searchTerm })
          cityMatch ==
              FirstAirport({ i \in DOMAIN table : table[i].city = searchTerm })
          partialCityMatch ==
              FirstAirport({ i \in DOMAIN table :
                               \/ includes(table[i].city, searchTerm)
                               \/ includes(searchTerm, table[i].city) })
          nameMatch ==
              FirstAirport({ i \in DOMAIN table :
                               includes(table[i].name, searchTerm) })
      IN  IF exactCodeMatch # NoAirport THEN exactCodeMatch
          ELSE IF cityMatch # NoAirport THEN cityMatch
          ELSE IF partialCityMatch # NoAirport THEN partialCityMatch
          ELSE nameMatch

\* Array.prototype.filter over the table, hits being the positions of the
\* entries that pass the test: their positions in table order.
RECURSIVE InTableOrder(_)
InTableOrder(hits) ==
    IF hits = {} THEN << >>
    ELSE LET first == CHOOSE i \in hits : \A j \in hits : i <= j
         IN  << first >> \o InTableOrder(hits \ {first})

\* Variant of slice: the whole list.
slice_whole(list, limit) == list

\* Array.prototype.slice(0, limit), for a limit that is no negative number.
slice(list, limit) == SubSeq(list, 1, Min(limit, Len(list)))

\* The positions in the table of the airports getAirportSuggestions
\* returns, in the order it returns them.
suggestedPositions(input, limit) ==
    IF ~Truthy(input) \/ Len(trim(input)) < 2 THEN << >>
    ELSE
      LET searchTerm == toLowerCase(trim(input))
          table == airportsLower
          exactCodeMatches ==
              { i \in DOMAIN table : startsWith(table[i].code, searchTerm) }
          cityMatches ==
              { i \in DOMAIN table :
                  /\ startsWith(table[i].city, searchTerm)
                  /\ ~\E j \in exactCodeMatches :
                        airports[j].code = airports[i].code }
          partialMatches ==
              { i \in DOMAIN table :
                  /\ \/ includes(table[i].city, searchTerm)
                     \/ includes(table[i].name, searchTerm)
                  /\ ~\E j \in exactCodeMatches \cup cityMatches :
                        airports[j].code = airports[i].code }
      IN  slice(InTableOrder(exactCodeMatches) \o InTableOrder(cityMatches)
                  \o InTableOrder(partialMatches), limit)

\* getAirportSuggestions(input, limit): the airports at these positions.
getAirportSuggestions(input, limit) ==
    LET positions == suggestedPositions(input, limit)
    IN  [n \in DOMAIN positions |-> airports[positions[n]]]

\* ------------------------------------------------------------------------
\* Dates.  A time is a whole number of hours since 1970-01-01T00:00Z; the
\* handlers only compare times and add whole days, and the local time zone
\* is a whole number of hours east of UTC.
\* ------------------------------------------------------------------------

\* Days since 1970-01-01 of the civil date y-m-d (proleptic Gregorian).
DaysFromCivil(y, m, d) ==
    LET yy  == IF m <= 2 THEN y - 1 ELSE y
        era == yy \div 400
        yoe == yy - era * 400
        mp  == IF m > 2 THEN m - 3 ELSE m + 9
        doy == (153 * mp + 2) \div 5 + d - 1
        doe == yoe * 365 + yoe \div 4 - yoe \div 100 + doy
    IN  era * 146097 + doe - 719468

\* The civil date <<y, m, d>> of a day number.
CivilFromDays(z0) ==
    LET z   == z0 + 719468
        era == z \div 146097
        doe == z - era * 146097
        yoe == (doe - doe \div 1460 + doe \div 36524 - doe \div 146096) \div 365
        doy == doe - (365 * yoe + yoe \div 4 - yoe \div 100)
        mp  == (5 * doy + 2) \div 153
        d   == doy - (153 * mp + 2) \div 5 + 1
        m   == IF mp < 10 THEN mp + 3 ELSE mp - 9
        y   == yoe + era * 400
    IN  << IF m <= 2 THEN y + 1 ELSE y, m, d >>

IsLeapYear(y) == (y % 4 = 0 /\ y % 100 # 0) \/ y % 400 = 0

DaysInMonth(y, m) ==
    IF m = 2 THEN (IF IsLeapYear(y) THEN 29 ELSE 28)
    ELSE IF m \in {4, 6, 9, 11} THEN 30 ELSE 31

AllDigits(s) == \A i \in 1..Len(s) : IsDigit(SubSeq(s, i, i))

\* The date-only ISO form YYYY-MM-DD.
IsIsoDateOnly(s) ==
    /\ Len(s) = 10
    /\ AllDigits(SubSeq(s, 1, 4))
    /\ SubSeq(s, 5, 5) = "-"
    /\ AllDigits(SubSeq(s, 6, 7))
    /\ SubSeq(s, 8, 8) = "-"
    /\ AllDigits(SubSeq(s, 9, 10))

\* new Date(s) as a time: a date-only ISO string is midnight UTC of that
\* day; a string that is no date is an Invalid Date, whose time is NaN.
\* (The strings the model draws are of these two kinds.)
NewDate(s) ==
    IF ~IsIsoDateOnly(s) THEN NaN
    ELSE
      LET y == DigitsValue(SubSeq(s, 1, 4), DecDigits, 10, 0)
          m == DigitsValue(SubSeq(s, 6, 7), DecDigits, 10, 0)
          d == DigitsValue(SubSeq(s, 9, 10), DecDigits, 10, 0)
      IN  IF m \in 1..12 /\ d \in 1..DaysInMonth(y, m)
          THEN Num(DaysFromCivil(y, m, d) * 24)
          ELSE NaN

\* String.prototype.padStart(w, '0').
RECURSIVE PadStart(_, _)
PadStart(t, w) == IF Len(t) >= w THEN t ELSE PadStart("0" \o t, w)

\* date.toISOString().split('T')[0] for a time: the UTC date as YYYY-MM-DD.
IsoDateOf(time) ==
    LET c == CivilFromDays(time \div 24)
    IN  PadStart(ToString(c[1]), 4) \o "-" \o PadStart(ToString(c[2]), 2)
          \o "-" \o PadStart(ToString(c[3]), 2)

\* getDateString(daysFromNow) called at time now: setDate(getDate() + n)
\* moves the time by n whole days.
getDateString(now, daysFromNow) == IsoDateOf(now + daysFromNow * 24)

\* const today = new Date(); today.setHours(0, 0, 0, 0): the start of the
\* local day, tz hours east of UTC, as a time.
LocalMidnight(now, tz) == ((now + tz) \div 24) * 24 - tz

\* ------------------------------------------------------------------------
\* State
\* ------------------------------------------------------------------------

VARIABLES
    SERPAPI_KEY,  \* process.env.SERPAPI_KEY of the server process
    pc,           \* the route handler: "idle", "await", "replied" or "done"
    req,          \* the inbound request being served
    clockRead,    \* the time and time zone the handler read for it
    sent,         \* the provider calls made on its behalf, in order
    reply,        \* the provider's reply to the latest call
    failedCalls,  \* how many of them failed (HTTP error status or no reply)
    ctx,          \* the handler's locals that live across an await
    resp,         \* the response returned for it
    served,       \* how many requests the process has answered before
    ui_query,            \* Home: the text of the search box
    ui_results,          \* Home: the result list (its length)
    ui_loading,
    ui_searched,
    ui_totalResults,
    ui_timeTaken,
    ui_activeSearchType,
    ui_error,            \* Home: the text of the ui_error banner, "" for none
    ui_currentPage,
    ui_totalPages,
    ui_hasNextPage,   \* Home: the hasNextPage / hasPrevPage state
    ui_hasPrevPage,
    ui_flightParams,
    ui_showFlightForm,
    pending,          \* Home: the /api/search requests awaiting their answer
    answered,         \* Home: which search the page's state was last set from
    aq_call,          \* lib/airports: the lookup called last
    aq_result,        \* lib/airports: what it returned
    ai_value,            \* AirportInput: the value prop
    ai_suggestions,      \* AirportInput: the suggestions state
    ai_showSuggestions,  \* AirportInput: the showSuggestions state
    ai_selectedIndex,    \* AirportInput: the selectedIndex state
    ai_reported,         \* AirportInput: the last value given to onChange
    ai_hideTimers        \* AirportInput: handleBlur timers not yet fired

routeVars ==
    << SERPAPI_KEY, pc, req, clockRead, sent, reply, failedCalls, ctx, resp,
       served >>

homeVars ==
    << ui_query, ui_results, ui_loading, ui_searched, ui_totalResults, ui_timeTaken,
       ui_activeSearchType, ui_error, ui_currentPage, ui_totalPages, ui_hasNextPage,
       ui_hasPrevPage, ui_flightParams, ui_showFlightForm, pending, answered >>

lookupVars == << aq_call, aq_result >>

inputVars ==
    << ai_value, ai_suggestions, ai_showSuggestions, ai_selectedIndex,
       ai_reported, ai_hideTimers >>

airportVars == << lookupVars, inputVars >>

vars == << routeVars, homeVars, airportVars >>

\* ------------------------------------------------------------------------
\* Bounds and input sets
\* ------------------------------------------------------------------------

\* The longest result list a provider returns.
MaxResults == 21

\* The most symbol matches the quote provider returns.
MaxMatches == 6

\* The most requests one process answers, one after the other.
MaxServed == 2

\* The two versions of app/api/search/route.ts: "multi" serves books from
\* Open Library, finance from Alpha Vantage and the rest from SerpAPI;
\* "serp" serves every type from SerpAPI.
Routes == {"multi", "serp"}

Types == {NULL, "", "web", "images", "videos", "news", "shopping", "maps",
          "books", "flights", "finance", "podcasts"}

PageTexts == {NULL, "1", "2", "9", "10", "11", "0", "-2", "abc"}

\* The process environment either has no key, an empty one, or a key.
KeyValues == {NULL, "", "serp-key"}

\* The clock a handler reads: 2026-11-06T02:00Z, in three time zones.
Nows == {DaysFromCivil(2026, 11, 6) * 24 + 2}
TimeZones == {-5, 0, 9}

NoClock == [now |-> 0, tz |-> 0, read |-> FALSE]

DepartureInputs == {NULL, "JFK", "new york", "xYz", "SAN", "zz", "12!", "   "}
ArrivalInputs == {NULL, "LAX", "lax", "q"}
OutboundDates == {NULL, "2026-11-05", "2026-11-06", "2026-11-20", "soon"}
ReturnDates == {NULL, "2026-11-06", "2026-11-20", "2026-11-21", "later"}
FlightTypes == {NULL, "1", "2"}
AdultsTexts == {NULL, "9", "0", "10", "two", "2x"}

BaseReq(route, q, type, page) ==
    [route |-> route, q |-> q, type |-> type, page |-> page,
     lat |-> NULL, lng |-> NULL, zoom |-> NULL,
     departure_id |-> NULL, arrival_id |-> NULL, outbound_date |-> NULL,
     return_date |-> NULL, flight_type |-> NULL, travel_class |-> NULL,
     adults |-> NULL]

NoReq == [route |-> "none"]

FlightsReq(route, page, d, a, o, rd, ft, ad) ==
    [BaseReq(route, "tla", "flights", page) EXCEPT
        !.departure_id = d, !.arrival_id = a, !.outbound_date = o,
        !.return_date = rd, !.flight_type = ft, !.travel_class = "3",
        !.adults = ad]

\* The flight parameters drawn: every pair of airports with every outbound
\* date, every pair of dates with every flight type, and every number of
\* adults with and without a resolvable departure.
FlightForms ==
         { << d, a, o, "2026-11-21", "1", "2" >> :
             d \in DepartureInputs, a \in ArrivalInputs, o \in OutboundDates }
    \cup { << "new york", "LAX", o, rd, ft, NULL >> :
             o \in OutboundDates, rd \in ReturnDates, ft \in FlightTypes }
    \cup { << d, "lax", "2026-11-20", "2026-11-20", ft, ad >> :
             d \in {"JFK", "zz"}, ft \in FlightTypes, ad \in AdultsTexts }

Requests ==
         { BaseReq(r, q, t, NULL) : r \in Routes, q \in {NULL, ""}, t \in Types }
    \cup { BaseReq(r, "tla", t, pg) : r \in Routes, t \in Types, pg \in PageTexts }
    \cup { BaseReq(r, "Stock Market today", "finance", pg) :
             r \in Routes, pg \in {NULL, "2"} }
    \cup { [BaseReq(r, "cafe", "maps", pg) EXCEPT
              !.lat = "52.52", !.lng = "13.40", !.zoom = "14z"] :
             r \in Routes, pg \in {NULL, "2"} }
    \cup { FlightsReq(r, NULL, f[1], f[2], f[3], f[4], f[5], f[6]) :
             r \in Routes, f \in FlightForms }
    \cup { [FlightsReq(r, NULL, "JFK", "LAX", "2026-11-20", "2026-11-21",
                        "1", "2") EXCEPT !.q = q] :
             r \in Routes, q \in {NULL, ""} }
    \cup { FlightsReq(r, "2", "JFK", "LAX", o, rd, NULL, NULL) :
             r \in Routes, o \in OutboundDates, rd \in ReturnDates }

\* ------------------------------------------------------------------------
\* Responses
\* ------------------------------------------------------------------------

NoResp == [status |-> 0]

\* NextResponse.json({ error: msg }, { status })
ErrorResponse(status, msg) == [status |-> status, error |-> msg]

\* NextResponse.json(body): status 200.
OkResponse(results, total, time, type, current, pages, next, prev, perPage) ==
    [status |-> 200,
     results |-> results,
     search_metadata |->
        [total_results |-> total,
         time_taken_displayed |-> time,
         search_type |-> type,
         current_page |-> ToJson(current),
         total_pages |-> pages,
         has_next_page |-> next,
         has_prev_page |-> prev,
         results_per_page |-> perPage],
     search_type |-> type]

IsError(r) == Has(r, "error")
IsSuccess(r) == r.status = 200 /\ Has(r, "results")

\* ------------------------------------------------------------------------
\* Provider calls and replies
\* ------------------------------------------------------------------------

\* axios.get(url, { params, timeout }) to one of the three providers.
Call(provider, params) == [provider |-> provider, params |-> params]

\* What the handler does next: return a response, or await a provider call
\* with the locals it keeps across the await.
Respond(r) == [kind |-> "respond", resp |-> r]
Await(call, c) == [kind |-> "await", call |-> call, ctx |-> c]

NoCtx == [stage |-> "none", results |-> 0, remaining |-> 0]
Stage(name) == [stage |-> name, results |-> 0, remaining |-> 0]

NoReply == [ok |-> TRUE, none |-> TRUE]

\* A failed call, as axios reports it: the provider's HTTP status (0 when
\* there was no reply) and the axios error code.
Failure(status, code) ==
    [ok |-> FALSE, isAxios |-> TRUE, status |-> status, code |-> code]

Failures ==
    { Failure(401, "ERR_BAD_REQUEST"), Failure(429, "ERR_BAD_REQUEST"),
      Failure(400, "ERR_BAD_REQUEST"), Failure(403, "ERR_BAD_REQUEST"),
      Failure(500, "ERR_BAD_RESPONSE"), Failure(0, "ECONNABORTED"),
      Failure(0, "ERR_NETWORK") }

\* A 2xx reply with its body.
Success(data) == [ok |-> TRUE, data |-> data]

\* A 2xx reply whose body is null.
NullData == [isNull |-> TRUE]

ResultCounts == {0, 1, MaxResults}

\* SerpAPI bodies.  results: the length of the list the handler reads for
\* the request's type (organic_results, images_results, ..., best_flights);
\* other: the length of other_flights; place: whether place_results is
\* there; info: search_information.total_results; meta:
\* search_metadata.total_results; time: the first truthy of
\* search_metadata's time_taken_displayed, processed_time, total_time_taken.
SerpData(results, other, place, info, meta, time) ==
    [isNull |-> FALSE, results |-> results, other |-> other, place |-> place,
     info |-> info, meta |-> meta, time |-> time]

InfoTotals ==
    { JAbsent, JNum(0), JNum(1), JNum(20), JNum(21), JNum(181), JNum(200),
      JNum(201), JNum(5000), JStr("1,234") }

SerpBodies ==
         { SerpData(n, 0, FALSE, i, JAbsent, JAbsent) :
             n \in ResultCounts, i \in InfoTotals }
    \cup { SerpData(n, 0, FALSE, i, JNum(45), JStr("0.31")) :
             n \in ResultCounts, i \in {JAbsent, JNum(0)} }

MapsBodies ==
    { SerpData(n, 0, pl, i, JAbsent, JStr("0.31")) :
        n \in ResultCounts, pl \in BOOLEAN, i \in {JAbsent, JNum(41)} }

FlightsBodies ==
    { SerpData(n, o, FALSE, JAbsent, JAbsent, JStr("0.31")) :
        n \in ResultCounts, o \in {0, 2} }

\* Open Library bodies: the length of docs and num_found.
BooksData(docs, num_found) ==
    [isNull |-> FALSE, docs |-> docs, num_found |-> num_found]

BooksBodies ==
    { BooksData(n, f) : n \in ResultCounts,
        f \in {JAbsent, JNum(0), JNum(1), JNum(20), JNum(21), JNum(200),
               JNum(201), JNum(5000)} }

\* Alpha Vantage bodies: the lengths of top_gainers and top_losers, the
\* length of bestMatches, and whether 'Global Quote' is there.
MarketData(gainers, losers) ==
    [isNull |-> FALSE, gainers |-> gainers, losers |-> losers]
SymbolData(matches) == [isNull |-> FALSE, matches |-> matches]
QuoteData(hasQuote) == [isNull |-> FALSE, hasQuote |-> hasQuote]

MatchCounts == {0, 1, 2, MaxMatches}

\* The replies a call can get.
RepliesTo(call, searchType) ==
    Failures \cup {Success(NullData)} \cup
    { Success(d) : d \in
        CASE call.provider = "openlibrary" -> BooksBodies
          [] call.provider = "alphavantage" ->
               CASE call.params.function = "TOP_GAINERS_LOSERS" ->
                      { MarketData(g, l) : g \in MatchCounts, l \in {0, MaxMatches} }
                 [] call.params.function = "SYMBOL_SEARCH" ->
                      { SymbolData(m) : m \in MatchCounts }
                 [] OTHER -> { QuoteData(h) : h \in BOOLEAN }
          [] searchType = "maps" /\ call.params.engine = "google_maps" -> MapsBodies
          [] searchType = "flights" /\ call.params.engine = "google_flights" ->
               FlightsBodies
          [] OTHER -> SerpBodies }

\* ------------------------------------------------------------------------
\* GET /api/search: what both versions of the route share
\* ------------------------------------------------------------------------

\* const resultsPerPage = 20
resultsPerPage == 20

\* "Limit to 10 pages max"
PageCap == 10

\* .slice(0, 5) of the gainers, the losers and the symbol matches
TopCount == 5

\* Variant of searchTypeOf: only an absent type defaults to web.
searchTypeOf_absentOnly(p) == IF p.type = NULL THEN "web" ELSE p.type

\* const searchType = searchParams.get('type') || 'web'
searchTypeOf(p) == OrElse(p.type, "web")

\* const page = parseInt(searchParams.get('page') || '1')
pageOf(p) == parseInt(OrElse(p.page, "1"))

\* Variant of QueryMissing: only an absent q counts as missing.
QueryMissing_absentOnly(query) == query = NULL

\* if (!query)
QueryMissing(query) == ~Truthy(query)

\* Variant of KeyMissing: only an unset variable counts as missing.
KeyMissing_unsetOnly(key) == key = NULL

\* if (!serpApiKey)
KeyMissing(key) == ~Truthy(key)

\* if (page > 1)
PastFirstPage(page) == JsGt(page, Num(1))

\* Variant of startIndex: the offset counts the requested page in.
startIndex_byPage(page) == JsMul(page, Num(resultsPerPage))

\* const startIndex = (page - 1) * resultsPerPage
startIndex(page) == JsMul(JsSub(page, Num(1)), Num(resultsPerPage))

\* if (page > 1) params[key] = startIndex
WithStart(params, key, page) ==
    IF PastFirstPage(page) THEN Put(params, key, startIndex(page).val)
    ELSE params

baseParams(query, key) ==
    [engine |-> "google", q |-> query, api_key |-> key,
     location |-> "United States", gl |-> "us", hl |-> "en"]

\* Variant of CatchStatus: without the ECONNABORTED branch.
CatchStatus_noTimeout(error) ==
    IF error.isAxios /\ error.status = 401 THEN 401
    ELSE IF error.isAxios /\ error.status = 429 THEN 429
    ELSE IF error.isAxios /\ error.status = 400 THEN 400
    ELSE 500

\* The status the catch block answers a failure with.
CatchStatus(error) ==
    IF error.isAxios /\ error.status = 401 THEN 401
    ELSE IF error.isAxios /\ error.status = 429 THEN 429
    ELSE IF error.isAxios /\ error.status = 400 THEN 400
    ELSE IF error.isAxios /\ error.code = "ECONNABORTED" THEN 408
    ELSE 500

\* The catch block of GET.
CatchResponse(error) ==
    LET status == CatchStatus(error)
    IN  CASE status = 401 -> ErrorResponse(401, "Invalid SerpAPI key")
          [] status = 429 ->
               ErrorResponse(429, "API rate limit exceeded. Please try again later.")
          [] status = 400 -> ErrorResponse(400, "Invalid search parameters")
          [] status = 408 -> ErrorResponse(408, "Search request timed out")
          [] OTHER ->
               [status |-> 500, error |-> "Search failed",
                details |-> IF error.isAxios THEN error.code ELSE "TypeError"]

\* Reading a property of a null body throws a TypeError, which is no axios
\* error.
TypeError == [ok |-> FALSE, isAxios |-> FALSE, status |-> 0, code |-> "TypeError"]

\* totalResults = searchInfo?.total_results || searchMeta?.total_results
\*                || results.length.toString()
totalResultsOf(data, count) ==
    IF JTruthy(data.info) THEN data.info
    ELSE IF JTruthy(data.meta) THEN data.meta
    ELSE JStr(ToString(count))

\* parseInt(String(totalResults).replace(/[,\s]/g, '')) || 0
totalResultsNum(totalResults) ==
    LET n == parseInt(StripCommasAndSpaces(JString(totalResults)))
    IN  IF IsNaN(n) THEN 0 ELSE n.val

\* Math.ceil(totalResultsNum / resultsPerPage)
totalPages(n) == CeilDiv(n, resultsPerPage)

\* Variant of hasNextPage: without the ten-page cap.
hasNextPage_uncapped(page, pages) == JsLt(page, Num(pages))

\* page < totalPages && page < 10
hasNextPage(page, pages) == JsLt(page, Num(pages)) /\ JsLt(page, Num(PageCap))

\* Variant of hasPrevPage: every page but the first has a previous one.
hasPrevPage_notFirst(page) == page # Num(1)

\* page > 1
hasPrevPage(page) == JsGt(page, Num(1))

\* total_pages: Math.min(totalPages, 10)
cappedPages(pages) == Min(pages, PageCap)

\* timeTaken: the provider's figure, or 0.
timeTakenOf(data) == IF JTruthy(data.time) THEN JString(data.time) ELSE "0"

\* The "Calculate pagination info" and "Return structured response" blocks.
filteredResponse(results, totalResults, timeTaken, searchType, page) ==
    LET pages == totalPages(totalResultsNum(totalResults))
    IN  OkResponse(results, totalResults, timeTaken, searchType, page,
                   cappedPages(pages), hasNextPage(page, pages),
                   hasPrevPage(page), resultsPerPage)

\* ------------------------------------------------------------------------
\* GET, the multi-provider version: up to the first await
\* ------------------------------------------------------------------------

\* The Open Library call of the books branch.
openLibraryParams(query, page) ==
    WithStart([q |-> query, limit |-> resultsPerPage,
               fields |-> "key,title,author_name,first_publish_year,publisher,language,number_of_pages_median,isbn,cover_i,ia,subject,edition_count,publish_year,publish_date"],
              "offset", page)

\* const alphaVantageKey = '...': the key is written in the source.
alphaVantageKey == "EMMEZJF2DJ08Y82M"

\* "For general market queries"
IsMarketQuery(query) ==
    LET q == toLowerCase(query)
    IN  includes(q, "market") \/ includes(q, "gainers") \/ includes(q, "losers")

getTopGainersLosers(apiKey) ==
    Call("alphavantage", [function |-> "TOP_GAINERS_LOSERS", apikey |-> apiKey])

searchSymbol(query, apiKey) ==
    Call("alphavantage",
         [function |-> "SYMBOL_SEARCH", keywords |-> query, apikey |-> apiKey])

\* The symbol of a match is part of the provider's reply; the model names
\* the matches by their position.
getQuote(symbol, apiKey) ==
    Call("alphavantage",
         [function |-> "GLOBAL_QUOTE", symbol |-> symbol, apikey |-> apiKey])

\* Variant of AirportId: any three characters pass for a code.
AirportId_anyThree(input) ==
    LET airport == findAirportByInput(input)
    IN  IF airport # NoAirport THEN [ok |-> TRUE, id |-> airport.code]
        ELSE IF Len(input) = 3
             THEN [ok |-> TRUE, id |-> toUpperCase(input)]
             ELSE [ok |-> FALSE, id |-> ""]

\* "Validate and convert airport inputs to IATA codes": the airport table
\* first, then any three letters, upper-cased.
AirportId(input) ==
    LET airport == findAirportByInput(input)
    IN  IF airport # NoAirport THEN [ok |-> TRUE, id |-> airport.code]
        ELSE IF Len(input) = 3 /\ IsThreeLetters(input)
             THEN [ok |-> TRUE, id |-> toUpperCase(input)]
             ELSE [ok |-> FALSE, id |-> ""]

\* Variant of DepartureInPast: a departure on the day before passes.
DepartureInPast_byADay(outboundDate, today) ==
    JsLt(outboundDate, JsSub(today, Num(24)))

\* if (outboundDate < today)
DepartureInPast(outboundDate, today) == JsLt(outboundDate, today)

\* Variant of ReturnNotAfter: a return on the day of departure passes.
ReturnNotAfter_strict(returnDate, outboundDate) ==
    JsLt(returnDate, outboundDate)

\* if (returnDate <= outboundDate)
ReturnNotAfter(returnDate, outboundDate) == JsLe(returnDate, outboundDate)

\* if (isNaN(adultsNum) || adultsNum < 1 || adultsNum > 9)
AdultsInvalid(adultsNum) ==
    IsNaN(adultsNum) \/ adultsNum.val < 1 \/ adultsNum.val > 9

\* Variant of IsRoundTrip: every flight is taken for a round trip.
IsRoundTrip_always(type) == type = type

\* if (type === '1'), "Round trip"
IsRoundTrip(type) == type = "1"

\* case 'flights': the validation and the provider's parameters.
FlightsCase(p, base, now, tz) ==
    LET departureInput == OrElse(p.departure_id, "")
        arrivalInput   == OrElse(p.arrival_id, "")
        outbound_date  == OrElse(p.outbound_date, getDateString(now, 7))
        return_date    == OrElse(p.return_date, getDateString(now, 14))
        type           == OrElse(p.flight_type, "1")
        travel_class   == OrElse(p.travel_class, "1")
        adults         == OrElse(p.adults, "1")
        departure      == AirportId(departureInput)
        arrival        == AirportId(arrivalInput)
        outboundDate   == NewDate(outbound_date)
        today          == Num(LocalMidnight(now, tz))
        returnDate     == NewDate(return_date)
        adultsNum      == parseInt(adults)
        cleared  == Delete(Delete(Delete(Delete(
                        Put(base, "engine", "google_flights"),
                        "tbm"), "num"), "location"), "q")
        oneWay   == Put(Put(Put(Put(Put(Put(Put(cleared,
                        "departure_id", departure.id),
                        "arrival_id", arrival.id),
                        "outbound_date", outbound_date),
                        "type", type),
                        "travel_class", travel_class),
                        "adults", adults),
                        "currency", "USD")
        final    == IF IsRoundTrip(type)
                    THEN Put(oneWay, "return_date", return_date)
                    ELSE oneWay
    IN  IF ~Truthy(departureInput)
        THEN Respond(ErrorResponse(400,
                 "Departure airport is required for flight search."))
        ELSE IF ~departure.ok
        THEN Respond(ErrorResponse(400,
                 "Invalid departure airport: \"" \o departureInput
                 \o "\". Please use a valid airport code (e.g., JFK) or city name (e.g., New York)."))
        ELSE IF ~Truthy(arrivalInput)
        THEN Respond(ErrorResponse(400,
                 "Arrival airport is required for flight search."))
        ELSE IF ~arrival.ok
        THEN Respond(ErrorResponse(400,
                 "Invalid arrival airport: \"" \o arrivalInput
                 \o "\". Please use a valid airport code (e.g., LAX) or city name (e.g., Los Angeles)."))
        ELSE IF DepartureInPast(outboundDate, today)
        THEN Respond(ErrorResponse(400, "Departure date cannot be in the past."))
        ELSE IF IsRoundTrip(type) /\ ReturnNotAfter(returnDate, outboundDate)
        THEN Respond(ErrorResponse(400,
                 "Return date must be after departure date."))
        ELSE IF AdultsInvalid(adultsNum)
        THEN Respond(ErrorResponse(400,
                 "Number of adults must be between 1 and 9."))
        ELSE Await(Call("serpapi", final), Stage("serp"))

\* The first switch (searchType) of the multi-provider version, flights
\* apart.
searchParams_final(p, searchType, base, page) ==
    CASE searchType = "images" ->
           WithStart(Put(Put(base, "tbm", "isch"), "num", 30), "start", page)
      [] searchType = "videos" ->
           WithStart(Put(Put(base, "tbm", "vid"), "num", resultsPerPage),
                     "start", page)
      [] searchType = "news" ->
           WithStart(Put(Put(base, "tbm", "nws"), "num", resultsPerPage),
                     "start", page)
      [] searchType = "shopping" ->
           WithStart(Put(Put(base, "tbm", "shop"), "num", resultsPerPage),
                     "start", page)
      [] searchType = "maps" ->
           LET lat  == OrElse(p.lat, "40.7455096")
               lng  == OrElse(p.lng, "-74.0083012")
               zoom == OrElse(p.zoom, "14z")
               m    == Put(Put(Put(Put(Put(base,
                          "engine", "google_maps"),
                          "type", "search"),
                          "ll", "@" \o lat \o "," \o lng \o "," \o zoom),
                          "gl", "us"),
                          "hl", "en")
           IN  WithStart(Delete(Delete(Delete(m, "start"), "num"), "tbm"),
                         "start", page)
      [] OTHER ->
           WithStart(Put(base, "num", resultsPerPage), "start", page)

\* GET from its first line to its first await, or to the response it
\* returns without calling a provider.
GETStart(p, key, now, tz) ==
    LET query      == p.q
        searchType == searchTypeOf(p)
        page       == pageOf(p)
    IN  IF QueryMissing(query)
        THEN Respond(ErrorResponse(400, "Query parameter is required"))
        ELSE IF searchType = "books"
        THEN Await(Call("openlibrary", openLibraryParams(query, page)),
                   Stage("books"))
        ELSE IF searchType = "finance"
        THEN IF IsMarketQuery(query)
             THEN Await(getTopGainersLosers(alphaVantageKey), Stage("market"))
             ELSE Await(searchSymbol(query, alphaVantageKey), Stage("symbol"))
        ELSE IF KeyMissing(key)
        THEN Respond(ErrorResponse(500, "SerpAPI key not configured"))
        ELSE IF searchType = "flights"
        THEN FlightsCase(p, baseParams(query, key), now, tz)
        ELSE Await(Call("serpapi",
                        searchParams_final(p, searchType,
                                           baseParams(query, key), page)),
                   Stage("serp"))

\* ------------------------------------------------------------------------
\* GET, the multi-provider version: after a provider's reply
\* ------------------------------------------------------------------------

\* The body a finance helper hands back: the catch inside searchSymbol,
\* getQuote and getTopGainersLosers turns a failed call into null.
HelperData(r) == IF r.ok THEN r.data ELSE NullData

\* Variant of topMatchesOf: every match is quoted.
topMatchesOf_all(bestMatches) == bestMatches

\* const topMatches = symbolData.bestMatches.slice(0, 5): its length.
topMatchesOf(bestMatches) == Min(bestMatches, TopCount)

\* The response of the finance branch.
financeResponse(results) ==
    OkResponse(results, JStr(ToString(results)), "0.5", "finance", Num(1),
               1, FALSE, FALSE, results)

\* The response of the books branch.
booksResponse(data, page) ==
    LET results      == data.docs
        totalResults == IF data.num_found.t = "absent"
                        THEN JStr(ToString(results))
                        ELSE JStr(JString(data.num_found))
        n            == IF JTruthy(data.num_found) THEN data.num_found.val ELSE 0
        pages        == totalPages(n)
    IN  OkResponse(results, totalResults, "0.5", "books", page,
                   cappedPages(pages), hasNextPage(page, pages),
                   hasPrevPage(page), resultsPerPage)

\* The second switch (searchType): the result list and the total.
serpResponse(data, searchType, page) ==
    LET results ==
            CASE searchType = "maps" ->
                   data.results + (IF data.place THEN 1 ELSE 0)
              [] searchType = "flights" -> data.results + data.other
              [] OTHER -> data.results
        totalResults ==
            IF searchType = "flights" THEN JStr(ToString(results))
            ELSE totalResultsOf(data, results)
    IN  filteredResponse(results, totalResults, timeTakenOf(data),
                         searchType, page)

\* GET from the await that the reply r ends to the next await or to the
\* response.
GETResume(p, c, r) ==
    LET searchType == searchTypeOf(p)
        page       == pageOf(p)
        helper     == HelperData(r)
    IN  CASE c.stage = "market" ->
               Respond(financeResponse(
                   IF helper.isNull THEN 0
                   ELSE Min(helper.gainers, TopCount)
                          + Min(helper.losers, TopCount)))
          [] c.stage = "symbol" ->
               LET topMatches == IF helper.isNull THEN 0
                                 ELSE topMatchesOf(helper.matches)
               IN  IF topMatches = 0 THEN Respond(financeResponse(0))
                   ELSE Await(getQuote("match 1", alphaVantageKey),
                              [stage |-> "quote", results |-> 0,
                               remaining |-> topMatches])
          [] c.stage = "quote" ->
               IF c.remaining = 1
               THEN Respond(financeResponse(c.results + 1))
               ELSE Await(getQuote("match " \o ToString(c.results + 2),
                                   alphaVantageKey),
                          [stage |-> "quote", results |-> c.results + 1,
                           remaining |-> c.remaining - 1])
          [] OTHER ->
               IF ~r.ok THEN Respond(CatchResponse(r))
               ELSE IF r.data.isNull THEN Respond(CatchResponse(TypeError))
               ELSE IF c.stage = "books"
               THEN Respond(booksResponse(r.data, page))
               ELSE Respond(serpResponse(r.data, searchType, page))

\* ------------------------------------------------------------------------
\* GET, the SerpAPI-only version
\* ------------------------------------------------------------------------

\* The first switch (searchType) of the SerpAPI-only version.
searchParams_final_serp(query, searchType, base, page) ==
    CASE searchType = "images" ->
           WithStart(Put(Put(base, "tbm", "isch"), "num", 30), "start", page)
      [] searchType = "videos" ->
           WithStart(Put(Put(base, "tbm", "vid"), "num", resultsPerPage),
                     "start", page)
      [] searchType = "news" ->
           WithStart(Put(Put(base, "tbm", "nws"), "num", resultsPerPage),
                     "start", page)
      [] searchType = "shopping" ->
           WithStart(Put(Put(base, "tbm", "shop"), "num", resultsPerPage),
                     "start", page)
      [] searchType = "maps" ->
           Delete(Put(Put(base, "engine", "google_maps"), "type", "search"),
                  "tbm")
      [] searchType = "books" ->
           WithStart(Put(Put(base, "num", resultsPerPage),
                         "q", query \o " books"), "start", page)
      [] searchType = "flights" ->
           WithStart(Put(Put(base, "num", resultsPerPage),
                         "q", query \o " flights"), "start", page)
      [] searchType = "finance" ->
           WithStart(Put(Put(base, "num", resultsPerPage),
                         "q", query \o " stock price finance"), "start", page)
      [] OTHER ->
           WithStart(Put(base, "num", resultsPerPage), "start", page)

GETStart_serp(p, key) ==
    LET query      == p.q
        searchType == searchTypeOf(p)
        page       == pageOf(p)
    IN  IF QueryMissing(query)
        THEN Respond(ErrorResponse(400, "Query parameter is required"))
        ELSE IF KeyMissing(key)
        THEN Respond(ErrorResponse(500, "SerpAPI key not configured"))
        ELSE Await(Call("serpapi",
                        searchParams_final_serp(query, searchType,
                                                baseParams(query, key), page)),
                   Stage("serp"))

GETResume_serp(p, r) ==
    IF ~r.ok THEN Respond(CatchResponse(r))
    ELSE IF r.data.isNull THEN Respond(CatchResponse(TypeError))
    ELSE Respond(filteredResponse(r.data.results,
                                  totalResultsOf(r.data, r.data.results),
                                  timeTakenOf(r.data), searchTypeOf(p),
                                  pageOf(p)))

\* ------------------------------------------------------------------------
\* The route as a state machine: one request at a time through a handler
\* that keeps nothing from one request to the next
\* ------------------------------------------------------------------------

RouteInit ==
    /\ SERPAPI_KEY \in KeyValues
    /\ pc = "idle"
    /\ req = NoReq
    /\ clockRead = NoClock
    /\ sent = << >>
    /\ reply = NoReply
    /\ failedCalls = 0
    /\ ctx = NoCtx
    /\ resp = NoResp
    /\ served = 0

\* The handler returns a response or awaits a provider call.
Continue(o) ==
    IF o.kind = "respond"
    THEN /\ pc' = "done"
         /\ resp' = o.resp
         /\ ctx' = NoCtx
         /\ sent' = sent
    ELSE /\ pc' = "await"
         /\ resp' = NoResp
         /\ ctx' = o.ctx
         /\ sent' = Append(sent, o.call)

\* The clock readings a request can get: only the flights branch, past the
\* query and key checks, reads the clock.
ClockReadings(p, key) ==
    IF ~QueryMissing(p.q) /\ searchTypeOf(p) = "flights" /\ ~KeyMissing(key)
    THEN { [now |-> now, tz |-> tz, read |-> TRUE] :
             now \in Nows, tz \in TimeZones }
    ELSE { NoClock }

\* A request reaches the multi-provider GET, which runs to its first await
\* or to its response.
GET_Start ==
    /\ pc = "idle"
    /\ served < MaxServed
    /\ \E p \in Requests :
         /\ p.route = "multi"
         /\ \E c \in ClockReadings(p, SERPAPI_KEY) :
              /\ clockRead' = c
              /\ Continue(GETStart(p, SERPAPI_KEY, c.now, c.tz))
         /\ req' = p
    /\ reply' = NoReply
    /\ UNCHANGED << SERPAPI_KEY, failedCalls, served >>
    /\ UNCHANGED << homeVars, airportVars >>

\* A request reaches the SerpAPI-only GET.
GET_Start_serp ==
    /\ pc = "idle"
    /\ served < MaxServed
    /\ \E p \in Requests :
         /\ p.route = "serp"
         /\ req' = p
         /\ Continue(GETStart_serp(p, SERPAPI_KEY))
    /\ reply' = NoReply
    /\ UNCHANGED << SERPAPI_KEY, clockRead, failedCalls, served >>
    /\ UNCHANGED << homeVars, airportVars >>

\* The provider answers the outstanding call, or the call fails.
ProviderReply ==
    /\ pc = "await"
    /\ \E r \in RepliesTo(sent[Len(sent)], searchTypeOf(req)) :
         /\ reply' = r
         /\ failedCalls' = IF r.ok THEN failedCalls ELSE failedCalls + 1
    /\ pc' = "replied"
    /\ UNCHANGED << SERPAPI_KEY, req, clockRead, sent, ctx, resp, served >>
    /\ UNCHANGED << homeVars, airportVars >>

\* The multi-provider GET goes on after the reply.
GET_Resume ==
    /\ pc = "replied"
    /\ req.route = "multi"
    /\ Continue(GETResume(req, ctx, reply))
    /\ UNCHANGED << SERPAPI_KEY, req, clockRead, reply, failedCalls, served >>
    /\ UNCHANGED << homeVars, airportVars >>

\* The SerpAPI-only GET goes on after the reply.
GET_Resume_serp ==
    /\ pc = "replied"
    /\ req.route = "serp"
    /\ Continue(GETResume_serp(req, reply))
    /\ UNCHANGED << SERPAPI_KEY, req, clockRead, reply, failedCalls, served >>
    /\ UNCHANGED << homeVars, airportVars >>

\* Variant of Deliver: the calls made for the request outlive it.
Deliver_keepsCalls ==
    /\ pc = "done"
    /\ pc' = "idle"
    /\ req' = NoReq
    /\ clockRead' = NoClock
    /\ reply' = NoReply
    /\ failedCalls' = 0
    /\ ctx' = NoCtx
    /\ resp' = NoResp
    /\ served' = served + 1
    /\ UNCHANGED << SERPAPI_KEY, sent >>
    /\ UNCHANGED << homeVars, airportVars >>

\* The response goes to the client and the handler's frame is gone: query,
\* searchType, page, the provider's parameters and its reply are locals of
\* GET, and the module holds nothing else but constants.
Deliver ==
    /\ pc = "done"
    /\ pc' = "idle"
    /\ req' = NoReq
    /\ clockRead' = NoClock
    /\ sent' = << >>
    /\ reply' = NoReply
    /\ failedCalls' = 0
    /\ ctx' = NoCtx
    /\ resp' = NoResp
    /\ served' = served + 1
    /\ UNCHANGED SERPAPI_KEY
    /\ UNCHANGED << homeVars, airportVars >>

\* ------------------------------------------------------------------------
\* app/page.tsx: the Home component
\* ------------------------------------------------------------------------

\* The most /api/search requests of the page awaiting their answer at once.
MaxPending == 2

\* What the user types and picks.
QueryTexts == {"", "tla"}
Categories == {"web", "flights"}
DepartureTexts == {"", " ", "JFK"}
ArrivalTexts == {"", "LAX"}
OutboundTexts == {"", "2026-11-05"}
ReturnTexts == {"", "2026-11-13"}
FlightTypeOptions == {"1", "2"}

\* The clock of the browser.
browserNow == CHOOSE n \in Nows : TRUE
browserTz == 0

\* useState(...) of every piece of state, then the effect that runs on
\* mount and fills in the two dates.
HomeInit ==
    /\ ui_query = ""
    /\ ui_results = 0
    /\ ui_loading = FALSE
    /\ ui_searched = FALSE
    /\ ui_totalResults = ""
    /\ ui_timeTaken = "0"
    /\ ui_activeSearchType = "web"
    /\ ui_error = ""
    /\ ui_currentPage = 1
    /\ ui_totalPages = 1
    /\ ui_hasNextPage = FALSE
    /\ ui_hasPrevPage = FALSE
    /\ ui_flightParams =
         [departure |-> "", arrival |-> "",
          outbound_date |-> getDateString(browserNow, 7),
          return_date |-> getDateString(browserNow, 14),
          flight_type |-> "1", travel_class |-> "1", adults |-> "1"]
    /\ ui_showFlightForm = FALSE
    /\ pending = << >>
    /\ answered = "none"

\* A request handleSearch sends, by the type and the page it asks for (the
\* query and the flight parameters go with it; the page's state after the
\* answer does not depend on them).  latest tells whether it is the request
\* of the most recent call of handleSearch: the page itself keeps no such
\* mark.
SearchRequest(searchType, page) ==
    [type |-> searchType, page |-> page, latest |-> TRUE]

\* The requests in flight when handleSearch is called again: none of them is
\* the latest any more.
Superseded(requests) ==
    [i \in DOMAIN requests |-> [requests[i] EXCEPT !.latest = FALSE]]

\* The search an answer belongs to.
SearchOf(request) == IF request.latest THEN "latest" ELSE "earlier"

\* Variant of page_final: the page argument as it was passed.
page_final_asPassed(searchType, page) == page

\* The page handleSearch asks for: `page = 1` when the search type is not
\* the active one, the page argument otherwise.
page_final(searchType, page) ==
    IF searchType # ui_activeSearchType THEN 1 ELSE page

\* handleSearch(e, searchType, page) up to its await.
handleSearch(searchType, page0) ==
    IF trim(ui_query) = ""
    THEN UNCHANGED << ui_loading, ui_searched, ui_error, ui_activeSearchType,
                      ui_currentPage, pending >>
    ELSE
      LET page == page_final(searchType, page0)
      IN  /\ ui_loading' = TRUE
          /\ ui_searched' = TRUE
          /\ ui_error' = ""
          /\ ui_activeSearchType' = searchType
          /\ ui_currentPage' = page
          /\ pending' = Append(Superseded(pending),
                              SearchRequest(searchType, page))

\* <form onSubmit={handleSearch}>; its button is disabled while loading
\* and while the query is blank.
onSubmit ==
    /\ ~ui_loading
    /\ trim(ui_query) # ""
    /\ Len(pending) < MaxPending
    /\ handleSearch(ui_activeSearchType, 1)
    /\ UNCHANGED << ui_query, ui_results, ui_totalResults, ui_timeTaken, ui_totalPages,
                    ui_hasNextPage, ui_hasPrevPage, ui_flightParams,
                    ui_showFlightForm >>
    /\ UNCHANGED answered
    /\ UNCHANGED << routeVars, airportVars >>

\* onChange of the search box.
setQuery ==
    /\ \E q \in QueryTexts : ui_query' = q
    /\ UNCHANGED << ui_results, ui_loading, ui_searched, ui_totalResults, ui_timeTaken,
                    ui_activeSearchType, ui_error, ui_currentPage, ui_totalPages,
                    ui_hasNextPage, ui_hasPrevPage, ui_flightParams,
                    ui_showFlightForm, pending >>
    /\ UNCHANGED answered
    /\ UNCHANGED << routeVars, airportVars >>

\* A click on a category button; the buttons are never disabled.
handleCategoryClick ==
    /\ Len(pending) < MaxPending
    /\ \E searchType \in Categories :
         /\ IF ui_searched /\ trim(ui_query) # ""
            THEN handleSearch(searchType, 1)
            ELSE /\ ui_activeSearchType' = searchType
                 /\ UNCHANGED << ui_loading, ui_searched, ui_error, ui_currentPage,
                                 pending >>
         /\ ui_showFlightForm' = (searchType = "flights")
    /\ UNCHANGED << ui_query, ui_results, ui_totalResults, ui_timeTaken, ui_totalPages,
                    ui_hasNextPage, ui_hasPrevPage, ui_flightParams >>
    /\ UNCHANGED answered
    /\ UNCHANGED << routeVars, airportVars >>

\* The page buttons renderPagination draws: previous and next (disabled
\* without such a page and while loading), the window of numbered pages,
\* the first and the last page.
PageButtons ==
    IF ~(ui_searched /\ ui_results > 0 /\ ui_totalPages > 1) THEN {}
    ELSE
      LET startPage == IF ui_currentPage - 2 > 1 THEN ui_currentPage - 2 ELSE 1
          endPage   == Min(ui_totalPages, ui_currentPage + 2)
      IN  (startPage..endPage)
          \cup (IF startPage > 1 THEN {1} ELSE {})
          \cup (IF endPage < ui_totalPages THEN {ui_totalPages} ELSE {})
          \cup (IF ui_hasPrevPage /\ ~ui_loading THEN {ui_currentPage - 1} ELSE {})
          \cup (IF ui_hasNextPage /\ ~ui_loading THEN {ui_currentPage + 1} ELSE {})

\* handlePageChange(page), from a click on a page button.
handlePageChange ==
    /\ Len(pending) < MaxPending
    /\ \E page \in PageButtons :
         IF page >= 1 /\ page <= ui_totalPages
         THEN handleSearch(ui_activeSearchType, page)
         ELSE UNCHANGED << ui_loading, ui_searched, ui_error, ui_activeSearchType,
                           ui_currentPage, pending >>
    /\ UNCHANGED << ui_query, ui_results, ui_totalResults, ui_timeTaken, ui_totalPages,
                    ui_hasNextPage, ui_hasPrevPage, ui_flightParams,
                    ui_showFlightForm >>
    /\ UNCHANGED answered
    /\ UNCHANGED << routeVars, airportVars >>

\* The flight form is drawn while flights is the active category.
FlightFormShown == ui_activeSearchType = "flights"

homeRest ==
    << ui_query, ui_results, ui_loading, ui_searched, ui_totalResults, ui_timeTaken,
       ui_activeSearchType, ui_error, ui_currentPage, ui_totalPages, ui_hasNextPage,
       ui_hasPrevPage, ui_showFlightForm, pending, answered >>

\* onChange of the From and To inputs.
setDeparture ==
    /\ FlightFormShown
    /\ \E v \in DepartureTexts :
         ui_flightParams' = [ui_flightParams EXCEPT !.departure = v]
    /\ UNCHANGED homeRest
    /\ UNCHANGED << routeVars, airportVars >>

setArrival ==
    /\ FlightFormShown
    /\ \E v \in ArrivalTexts :
         ui_flightParams' = [ui_flightParams EXCEPT !.arrival = v]
    /\ UNCHANGED homeRest
    /\ UNCHANGED << routeVars, airportVars >>

\* onChange of the Departure date: a round trip's return date that is not
\* after the new departure moves to the day after it.
setOutboundDate ==
    /\ FlightFormShown
    /\ \E v \in OutboundTexts :
         LET newDeparture  == NewDate(v)
             currentReturn == NewDate(ui_flightParams.return_date)
         IN  ui_flightParams' =
               IF /\ ui_flightParams.flight_type = "1"
                  /\ Truthy(ui_flightParams.return_date)
                  /\ JsLe(currentReturn, newDeparture)
               THEN [ui_flightParams EXCEPT
                       !.outbound_date = v,
                       !.return_date = IsoDateOf(newDeparture.val + 24)]
               ELSE [ui_flightParams EXCEPT !.outbound_date = v]
    /\ UNCHANGED homeRest
    /\ UNCHANGED << routeVars, airportVars >>

\* onChange of the Return date, drawn for a round trip.
setReturnDate ==
    /\ FlightFormShown
    /\ ui_flightParams.flight_type = "1"
    /\ \E v \in ReturnTexts :
         ui_flightParams' = [ui_flightParams EXCEPT !.return_date = v]
    /\ UNCHANGED homeRest
    /\ UNCHANGED << routeVars, airportVars >>

\* onChange of the trip type.
setFlightType ==
    /\ FlightFormShown
    /\ \E v \in FlightTypeOptions :
         ui_flightParams' = [ui_flightParams EXCEPT !.flight_type = v]
    /\ UNCHANGED homeRest
    /\ UNCHANGED << routeVars, airportVars >>

\* The message the Search Flights button answers the form with, "" when
\* the form passes.
flightFormError ==
    LET f             == ui_flightParams
        departureDate == NewDate(f.outbound_date)
        today         == Num(LocalMidnight(browserNow, browserTz))
        returnDate    == NewDate(f.return_date)
    IN  IF trim(f.departure) = ""
        THEN "Please enter a departure airport or city."
        ELSE IF trim(f.arrival) = ""
        THEN "Please enter an arrival airport or city."
        ELSE IF ~Truthy(f.outbound_date)
        THEN "Please select a departure date."
        ELSE IF f.flight_type = "1" /\ ~Truthy(f.return_date)
        THEN "Please select a return date for round trip."
        ELSE IF JsLt(departureDate, today)
        THEN "Departure date cannot be in the past."
        ELSE IF f.flight_type = "1" /\ JsLe(returnDate, departureDate)
        THEN "Return date must be after departure date."
        ELSE ""

\* onClick of the Search Flights button, which is disabled while loading
\* and while an airport is empty.
searchFlightsClick ==
    /\ FlightFormShown
    /\ ~ui_loading
    /\ Truthy(ui_flightParams.departure)
    /\ Truthy(ui_flightParams.arrival)
    /\ Len(pending) < MaxPending
    /\ IF flightFormError # ""
       THEN /\ ui_error' = flightFormError
            /\ UNCHANGED << ui_loading, ui_searched, ui_activeSearchType,
                            ui_currentPage, pending >>
       ELSE IF trim(ui_query) = ""
       THEN /\ ui_error' = ""
            /\ UNCHANGED << ui_loading, ui_searched, ui_activeSearchType,
                            ui_currentPage, pending >>
       ELSE handleSearch("flights", 1)
    /\ UNCHANGED << ui_query, ui_results, ui_totalResults, ui_timeTaken, ui_totalPages,
                    ui_hasNextPage, ui_hasPrevPage, ui_flightParams,
                    ui_showFlightForm >>
    /\ UNCHANGED answered
    /\ UNCHANGED << routeVars, airportVars >>

\* The bodies /api/search answers a request with: a result list and its
\* search_metadata.
ResultLengths == {0, 2}
PageTotals == {1, 2}

SearchResponses(request) ==
    { [results |-> n,
       total_results |-> ToString(n),
       time_taken_displayed |-> "0.31",
       current_page |-> request.page,
       total_pages |-> tp,
       has_next_page |-> request.page < tp,
       has_prev_page |-> request.page > 1] :
        n \in ResultLengths, tp \in PageTotals }

\* The failures axios reports to the page: the HTTP status of the answer
\* (0 when there was none), whether its body has an error field, and the
\* axios error code.
SearchFailures ==
    { [status |-> 400, hasError |-> TRUE, code |-> "ERR_BAD_REQUEST"],
      [status |-> 429, hasError |-> TRUE, code |-> "ERR_BAD_REQUEST"],
      [status |-> 500, hasError |-> TRUE, code |-> "ERR_BAD_RESPONSE"],
      [status |-> 0, hasError |-> FALSE, code |-> "ECONNABORTED"] }

\* The message of the catch block of handleSearch.
errorMessage(failure) ==
    CASE failure.status = 401 ->
           "API authentication failed. Please check the API key."
      [] failure.status = 429 ->
           "Too many requests. Please wait a moment and try again."
      [] failure.status = 400 ->
           "Invalid search parameters. Please try a different search."
      [] failure.status = 408 ->
           "Search timed out. Please try again with a simpler query."
      [] OTHER ->
           IF failure.hasError THEN "Search failed"
           ELSE IF failure.code = "ECONNABORTED"
           THEN "Request timed out. Please check your connection and try again."
           ELSE "Search failed. Please try again."

\* pending without its i-th request.
Without(s, i) == SubSeq(s, 1, i - 1) \o SubSeq(s, i + 1, Len(s))

\* Variant of finallyLoading: the finally block leaves loading as it is.
finallyLoading_kept == ui_loading

\* finally { setLoading(false) }
finallyLoading == FALSE

\* handleSearch after its await, for an answered request: the try block's
\* tail, then finally.
searchSucceeded ==
    /\ \E i \in 1..Len(pending) :
         /\ \E data \in SearchResponses(pending[i]) :
              /\ ui_results' = data.results
              /\ ui_totalResults' = OrElse(data.total_results, "0")
              /\ ui_timeTaken' = data.time_taken_displayed
              /\ ui_currentPage' =
                   IF data.current_page # 0 THEN data.current_page ELSE 1
              /\ ui_totalPages' =
                   IF data.total_pages # 0 THEN data.total_pages ELSE 1
              /\ ui_hasNextPage' = data.has_next_page
              /\ ui_hasPrevPage' = data.has_prev_page
         /\ pending' = Without(pending, i)
         /\ answered' = SearchOf(pending[i])
    /\ ui_loading' = finallyLoading
    /\ UNCHANGED << ui_query, ui_searched, ui_activeSearchType, ui_error, ui_flightParams,
                    ui_showFlightForm >>
    /\ UNCHANGED << routeVars, airportVars >>

\* handleSearch after its await, for a request that failed: the catch
\* block, then finally.
searchFailed ==
    /\ \E i \in 1..Len(pending) :
         /\ \E failure \in SearchFailures : ui_error' = errorMessage(failure)
         /\ pending' = Without(pending, i)
         /\ answered' = SearchOf(pending[i])
    /\ ui_results' = 0
    /\ ui_totalResults' = "0"
    /\ ui_timeTaken' = "0"
    /\ ui_loading' = finallyLoading
    /\ UNCHANGED << ui_query, ui_searched, ui_activeSearchType, ui_currentPage,
                    ui_totalPages, ui_hasNextPage, ui_hasPrevPage, ui_flightParams,
                    ui_showFlightForm >>
    /\ UNCHANGED << routeVars, airportVars >>

\* ------------------------------------------------------------------------
\* The specifications
\* ------------------------------------------------------------------------

\* ------------------------------------------------------------------------
\* lib/airports.ts: the two lookups, called on their own
\* ------------------------------------------------------------------------

\* The inputs and limits the lookups are called with.
LookupInputs ==
    {NULL, "", " ", "   ", "j", "JFK", "jfk", " lax ", "new york", "New York",
     "york", "new", "san", "lon", "london", "paris france", "international",
     "heathrow", "o'hare", "zzz", "to", "an", "la", "chi", "airport"}

Limits == {0, 1, 2, 5, 8}

NoCall == [fn |-> "none"]

LookupInit ==
    /\ aq_call = NoCall
    /\ aq_result = << >>

\* findAirportByInput(input)
Call_findAirportByInput ==
    /\ \E input \in LookupInputs :
         /\ aq_call' = [fn |-> "findAirportByInput", input |-> input]
         /\ aq_result' = findAirportByInput(input)
    /\ UNCHANGED << routeVars, homeVars, inputVars >>

\* getAirportSuggestions(input, limit)
Call_getAirportSuggestions ==
    /\ \E input \in LookupInputs, limit \in Limits :
         /\ aq_call' = [fn |-> "getAirportSuggestions", input |-> input,
                        limit |-> limit]
         /\ aq_result' = getAirportSuggestions(input, limit)
    /\ UNCHANGED << routeVars, homeVars, inputVars >>

\* ------------------------------------------------------------------------
\* components/AirportInput.tsx
\* ------------------------------------------------------------------------

InputInit ==
    /\ ai_value = ""
    /\ ai_suggestions = << >>
    /\ ai_showSuggestions = FALSE
    /\ ai_selectedIndex = -1
    /\ ai_reported = NULL
    /\ ai_hideTimers = 0

\* The texts the input's change event carries.
TypedValues == {"", "n", "ne", "new", "JFK", "to", " a", "zz"}

\* How many handleBlur timers may be outstanding at once.
MaxTimers == 2

suggestionLimit == 8

\* useEffect(..., [value]), run after a render in which value is `value`.
useEffect_value(value) ==
    IF Len(value) >= 2
    THEN /\ ai_suggestions' = getAirportSuggestions(value, suggestionLimit)
         /\ ai_showSuggestions' = TRUE
         /\ ai_selectedIndex' = -1
    ELSE /\ ai_suggestions' = << >>
         /\ ai_showSuggestions' = FALSE
         /\ UNCHANGED ai_selectedIndex

\* onChange(value): the page stores the value in flightParams and passes it
\* back as the value prop; the effect runs when the prop has changed.
onChange(value) ==
    /\ ai_reported' = value
    /\ ai_value' = value

\* handleInputChange, the change event carrying a new text.
handleInputChange ==
    /\ \E text \in TypedValues :
         /\ text # ai_value
         /\ onChange(text)
         /\ useEffect_value(text)
    /\ UNCHANGED << routeVars, homeVars, lookupVars, ai_hideTimers >>

\* handleSuggestionClick(airport), followed by the effect when the value
\* prop has changed.
handleSuggestionClick(airport) ==
    /\ onChange(airport.code)
    /\ IF airport.code # ai_value
       THEN useEffect_value(airport.code)
       ELSE /\ ai_showSuggestions' = FALSE
            /\ UNCHANGED << ai_suggestions, ai_selectedIndex >>

\* A click on one of the listed suggestions; the list is rendered only
\* while showSuggestions holds and there are suggestions.
suggestionClick ==
    /\ ai_showSuggestions
    /\ \E n \in DOMAIN ai_suggestions : handleSuggestionClick(ai_suggestions[n])
    /\ UNCHANGED << routeVars, homeVars, lookupVars, ai_hideTimers >>

\* The early return of handleKeyDown.
KeysIgnored == ~ai_showSuggestions \/ Len(ai_suggestions) = 0

\* handleKeyDown, key ArrowDown.
keyArrowDown ==
    /\ IF KeysIgnored THEN UNCHANGED ai_selectedIndex
       ELSE ai_selectedIndex' =
              IF ai_selectedIndex < Len(ai_suggestions) - 1
              THEN ai_selectedIndex + 1 ELSE 0
    /\ UNCHANGED << routeVars, homeVars, lookupVars, ai_value, ai_suggestions,
                    ai_showSuggestions, ai_reported, ai_hideTimers >>

\* handleKeyDown, key ArrowUp.
keyArrowUp ==
    /\ IF KeysIgnored THEN UNCHANGED ai_selectedIndex
       ELSE ai_selectedIndex' =
              IF ai_selectedIndex > 0
              THEN ai_selectedIndex - 1 ELSE Len(ai_suggestions) - 1
    /\ UNCHANGED << routeVars, homeVars, lookupVars, ai_value, ai_suggestions,
                    ai_showSuggestions, ai_reported, ai_hideTimers >>

\* handleKeyDown, key Enter.  suggestions[selectedIndex] counts from 0.
keyEnter ==
    /\ IF /\ ~KeysIgnored
          /\ ai_selectedIndex >= 0
          /\ ai_selectedIndex < Len(ai_suggestions)
       THEN handleSuggestionClick(ai_suggestions[ai_selectedIndex + 1])
       ELSE UNCHANGED << ai_value, ai_suggestions, ai_showSuggestions,
                         ai_selectedIndex, ai_reported >>
    /\ UNCHANGED << routeVars, homeVars, lookupVars, ai_hideTimers >>

\* handleKeyDown, key Escape.
keyEscape ==
    /\ IF KeysIgnored THEN UNCHANGED << ai_showSuggestions, ai_selectedIndex >>
       ELSE /\ ai_showSuggestions' = FALSE
            /\ ai_selectedIndex' = -1
    /\ UNCHANGED << routeVars, homeVars, lookupVars, ai_value, ai_suggestions,
                    ai_reported, ai_hideTimers >>

\* handleBlur: starts the 200 ms timer.
handleBlur ==
    /\ ai_hideTimers < MaxTimers
    /\ ai_hideTimers' = ai_hideTimers + 1
    /\ UNCHANGED << routeVars, homeVars, lookupVars, ai_value, ai_suggestions,
                    ai_showSuggestions, ai_selectedIndex, ai_reported >>

\* The callback of a handleBlur timer.
hideTimerFires ==
    /\ ai_hideTimers > 0
    /\ ai_hideTimers' = ai_hideTimers - 1
    /\ ai_showSuggestions' = FALSE
    /\ UNCHANGED << routeVars, homeVars, lookupVars, ai_value, ai_suggestions,
                    ai_selectedIndex, ai_reported >>

\* handleFocus.
handleFocus ==
    /\ IF Len(ai_value) >= 2 /\ Len(ai_suggestions) > 0
       THEN ai_showSuggestions' = TRUE
       ELSE UNCHANGED ai_showSuggestions
    /\ UNCHANGED << routeVars, homeVars, lookupVars, ai_value, ai_suggestions,
                    ai_selectedIndex, ai_reported, ai_hideTimers >>

Init == RouteInit /\ HomeInit /\ LookupInit /\ InputInit

Next ==
    \/ GET_Start
    \/ GET_Start_serp
    \/ ProviderReply
    \/ GET_Resume
    \/ GET_Resume_serp
    \/ Deliver

Spec == Init /\ [][Next]_vars

\* The Home page alone, whatever the route answers.
NextHome ==
    \/ setQuery
    \/ onSubmit
    \/ handleCategoryClick
    \/ handlePageChange
    \/ setDeparture
    \/ setArrival
    \/ setOutboundDate
    \/ setReturnDate
    \/ setFlightType
    \/ searchFlightsClick
    \/ searchSucceeded
    \/ searchFailed

\* The page is served by a route that has its key.
InitHome == Init /\ SERPAPI_KEY = "serp-key"

SpecHome == InitHome /\ [][NextHome]_vars

\* handleSearch called on its own, with any search type and page argument.
CalledTypes == {"web", "images", "flights"}
PageArguments == {1, 2}

Call_handleSearch ==
    /\ Len(pending) < MaxPending
    /\ \E searchType \in CalledTypes, page \in PageArguments :
         handleSearch(searchType, page)
    /\ UNCHANGED << ui_query, ui_results, ui_totalResults, ui_timeTaken, ui_totalPages,
                    ui_hasNextPage, ui_hasPrevPage, ui_flightParams,
                    ui_showFlightForm >>
    /\ UNCHANGED answered
    /\ UNCHANGED << routeVars, airportVars >>

NextSearch ==
    \/ setQuery
    \/ Call_handleSearch
    \/ searchSucceeded
    \/ searchFailed

SpecSearch == InitHome /\ [][NextSearch]_vars

\* The same when a request in flight is answered in the end: axios resolves
\* with the proxy's answer or rejects, at the latest when its 30 second
\* timeout fires.
SpecSearchFair == SpecSearch /\ WF_vars(searchSucceeded \/ searchFailed)

\* The lookups alone.
NextAirports ==
    \/ Call_findAirportByInput
    \/ Call_getAirportSuggestions

SpecAirports == InitHome /\ [][NextAirports]_vars

\* The AirportInput component alone.
NextInput ==
    \/ handleInputChange
    \/ suggestionClick
    \/ keyArrowDown
    \/ keyArrowUp
    \/ keyEnter
    \/ keyEscape
    \/ handleBlur
    \/ hideTimerFires
    \/ handleFocus

SpecInput == InitHome /\ [][NextInput]_vars

\* ------------------------------------------------------------------------
\* Properties of the route, under Spec
\* ------------------------------------------------------------------------

\* C1: a request whose q is missing or empty is answered with status 400
\* and an error field, whatever its other parameters and in both versions
\* of the route, and no provider is called for it.
C1_MissingQueryRejected ==
    (req # NoReq /\ req.q \in {NULL, ""}) =>
        /\ pc = "done"
        /\ resp.status = 400
        /\ IsError(resp)
        /\ sent = << >>

\* An empty q with type=flights and flight parameters has been answered.
C1_Witness ==
    /\ pc = "done"
    /\ req # NoReq
    /\ req.q = ""
    /\ req.type = "flights"
    /\ req.departure_id = "JFK"
    /\ resp.status = 400
    /\ resp.error = "Query parameter is required"

C4_TotalPagesFromTotal ==
    (/\ pc = "done"
     /\ IsSuccess(resp)
     /\ searchTypeOf(req) \in {"web", "images", "videos", "news", "shopping",
                               "maps", "flights", "books"})
    => LET data     == reply.data
           reported == IF sent[1].provider = "openlibrary" THEN data.num_found
                       ELSE IF JTruthy(data.info) THEN data.info
                       ELSE data.meta
           N        == IF ~JTruthy(reported) THEN resp.results
                       ELSE IF reported.t = "num" THEN reported.val
                       ELSE parseInt(StripCommasAndSpaces(reported.str)).val
       IN  resp.search_metadata.total_pages = Min(CeilDiv(N, 20), 10)

\* C5: in a success response has_next_page is true exactly when
\* current_page is less than the total_pages of the same response, and it
\* is false for every page from 10 on.
C5_HasNextPage ==
    (pc = "done" /\ IsSuccess(resp)) =>
        LET m == resp.search_metadata
        IN  /\ m.has_next_page
                <=> (~m.current_page.nan /\ m.current_page.val < m.total_pages)
            /\ (~m.current_page.nan /\ m.current_page.val >= 10)
                => ~m.has_next_page

\* Page 9 of more than ten pages of results has a next page.
C5_Witness ==
    /\ pc = "done"
    /\ IsSuccess(resp)
    /\ req.page = "9"
    /\ resp.search_metadata.total_pages = 10
    /\ resp.search_metadata.has_next_page

\* C6: a response with an error field has a status in {400, 401, 408, 429,
\* 500}: after a provider's 401 it is 401, after 429 it is 429, after 400 it
\* is 400, after a timeout (ECONNABORTED) 408, and after any other failure
\* 500; a request rejected before any call gets 400 or 500.
C6_ErrorStatus ==
    (pc = "done" /\ IsError(resp)) =>
        /\ resp.status \in {400, 401, 408, 429, 500}
        /\ IF sent = << >> THEN resp.status \in {400, 500}
           ELSE IF reply.ok THEN resp.status = 500
           ELSE resp.status =
                  CASE reply.status = 401 -> 401
                    [] reply.status = 429 -> 429
                    [] reply.status = 400 -> 400
                    [] reply.code = "ECONNABORTED" -> 408
                    [] OTHER -> 500

\* A provider call that timed out has been answered with 408.
C6_Witness ==
    /\ pc = "done"
    /\ Len(sent) = 1
    /\ ~reply.ok
    /\ reply.code = "ECONNABORTED"
    /\ IsError(resp)
    /\ resp.status = 408

\* C7 as the specification states it: a request causes at most one provider
\* call, in every category.
C7_Original == Len(sent) <= 1

\* C7: outside finance a request causes at most one provider call: none
\* when it is rejected, and one when its answer is a success.  A finance
\* request of the multi-provider route causes one call for a market query,
\* and for any other query one symbol search and then one quote call per
\* match among the first five, at most six calls in all.
C7_ProviderCalls ==
    req # NoReq =>
        IF req.route = "multi" /\ req.type = "finance" /\ Truthy(req.q)
        THEN /\ Len(sent) <= 6
             /\ sent # << >>
             /\ sent[1].params.function = "TOP_GAINERS_LOSERS" => Len(sent) = 1
             /\ \A i \in 2..Len(sent) :
                    sent[i].params.function = "GLOBAL_QUOTE"
        ELSE /\ Len(sent) <= 1
             /\ (pc = "done" /\ sent = << >>) => IsError(resp)
             /\ (pc = "done" /\ IsSuccess(resp)) => Len(sent) = 1

\* A symbol search with more than five matches has been answered after six
\* calls.
C7_Witness ==
    /\ pc = "done"
    /\ req.type = "finance"
    /\ Len(sent) = 6
    /\ sent[1].params.function = "SYMBOL_SEARCH"
    /\ IsSuccess(resp)
    /\ resp.results = 5

\* C8 as the specification states it: when a provider call made for a
\* request has failed, the response has an error field and a status of the
\* error set, never 200 with a result list.
C8_FailureIsReported ==
    (pc = "done" /\ failedCalls > 0) =>
        /\ IsError(resp)
        /\ resp.status \in {400, 401, 408, 429, 500}
        /\ ~IsSuccess(resp)

\* C9 as the specification states it: without a key in the environment,
\* every request with a non-empty q is answered with status 500 and an
\* error field, and no provider is called.
C9_Original ==
    (req # NoReq /\ Truthy(req.q) /\ ~Truthy(SERPAPI_KEY)) =>
        /\ pc = "done"
        /\ resp.status = 500
        /\ IsError(resp)
        /\ sent = << >>

\* C9: without a SerpAPI key in the environment, every request with a
\* non-empty q that SerpAPI would serve (every type in the SerpAPI-only
\* route; every type but books and finance in the multi-provider route) is
\* answered with status 500 and an error field, and no provider is called.
\* Books (Open Library) and finance (Alpha Vantage, with the key written in
\* the source) are served without it.
C9_NoKeyNoSearch ==
    (/\ req # NoReq
     /\ Truthy(req.q)
     /\ ~Truthy(SERPAPI_KEY)
     /\ ~(req.route = "multi" /\ req.type \in {"books", "finance"}))
    => /\ pc = "done"
       /\ resp.status = 500
       /\ IsError(resp)
       /\ sent = << >>

\* With an empty key, a flights request with every parameter in order has
\* been answered with 500.
C9_Witness ==
    /\ pc = "done"
    /\ SERPAPI_KEY = ""
    /\ req.route = "multi"
    /\ req.type = "flights"
    /\ req.departure_id = "JFK"
    /\ resp.status = 500
    /\ resp.error = "SerpAPI key not configured"
    /\ sent = << >>

\* ------------------------------------------------------------------------
\* Properties of the Home page, under SpecHome
\* ------------------------------------------------------------------------

\* C10 as the specification states it: whenever the error message is not
\* empty the result list is empty.
C10_ErrorWithoutResults == ui_error # "" => ui_results = 0

\* ------------------------------------------------------------------------
\* Further properties of the route, under Spec
\* ------------------------------------------------------------------------

\* The response a handler gives in a process that has served nothing yet:
\* to the request p, with the key, the clock reading c and the provider's
\* reply r to its one call.
AnswerOf(p, key, c, r) ==
    LET start == IF p.route = "multi" THEN GETStart(p, key, c.now, c.tz)
                 ELSE GETStart_serp(p, key)
    IN  IF start.kind = "respond" THEN start.resp
        ELSE IF p.route = "multi" THEN GETResume(p, start.ctx, r).resp
        ELSE GETResume_serp(p, r).resp

MetadataFields ==
    {"total_results", "time_taken_displayed", "search_type", "current_page",
     "total_pages", "has_next_page", "has_prev_page", "results_per_page"}

\* A success response has the results list, the top-level search_type and
\* the eight fields of search_metadata.
WellFormed(r) ==
    /\ DOMAIN r = {"status", "results", "search_metadata", "search_type"}
    /\ DOMAIN r.search_metadata = MetadataFields

\* C12 as stated: both search_type fields equal the request's type
\* parameter, web when the parameter is absent.
C12_Original ==
    (pc = "done" /\ IsSuccess(resp)) =>
        /\ WellFormed(resp)
        /\ resp.search_metadata.search_type = resp.search_type
        /\ resp.search_type = (IF req.type = NULL THEN "web" ELSE req.type)

\* C12: every success response has a results list, a top-level search_type
\* and a search_metadata object with all eight fields; the two search_type
\* fields are equal, and equal the request's type parameter, web when the
\* parameter is absent or empty.
C12_SuccessShape ==
    (pc = "done" /\ IsSuccess(resp)) =>
        /\ WellFormed(resp)
        /\ resp.search_metadata.search_type = resp.search_type
        /\ resp.search_type =
             (IF req.type = NULL \/ req.type = "" THEN "web" ELSE req.type)

\* A request with an empty type parameter is answered as a web search.
C12_Witness ==
    /\ pc = "done"
    /\ req.type = ""
    /\ IsSuccess(resp)
    /\ resp.search_type = "web"
    /\ sent[1].provider = "serpapi"

\* The page a request asks for: the number its page parameter reads as,
\* 1 when the parameter is absent.
RequestedPage(p) == IF p.page = NULL THEN Num(1) ELSE parseInt(p.page)

AsksForPageSize(call, n) ==
    /\ Has(call.params, "num") => call.params.num = n
    /\ Has(call.params, "limit") => call.params.limit = n

\* C14: the page size is 10: every provider call asks for 10 results per
\* page and every success response reports results_per_page = 10.
C14_PageSizeTen ==
    /\ \A i \in DOMAIN sent : AsksForPageSize(sent[i], 10)
    /\ (pc = "done" /\ IsSuccess(resp)) =>
           resp.search_metadata.results_per_page = 10

\* C15: safe search is active on every request sent to the search provider:
\* each SerpAPI call carries the safe-search parameter, switched on.
C15_SafeSearchActive ==
    \A i \in DOMAIN sent :
        sent[i].provider = "serpapi" =>
            /\ Has(sent[i].params, "safe")
            /\ sent[i].params.safe = "active"

\* A three-letter alphabetic input, in any letter case.
ThreeLetterInput(input) == Len(input) = 3 /\ IsThreeLetters(input)

\* C18: for type=flights, a departure or arrival input that is a 3-letter
\* alphabetic string is forwarded to the provider as that same string in
\* upper case.
C18_ThreeLettersForwarded ==
    \A i \in DOMAIN sent :
        (sent[i].provider = "serpapi"
           /\ sent[i].params.engine = "google_flights") =>
            /\ ThreeLetterInput(req.departure_id) =>
                 sent[i].params.departure_id = toUpperCase(req.departure_id)
            /\ ThreeLetterInput(req.arrival_id) =>
                 sent[i].params.arrival_id = toUpperCase(req.arrival_id)

\* The range of the provider's results a call asks for: where it starts
\* (start of a SerpAPI call, offset of an Open Library call, 0 without) and
\* how many results it asks for (num, limit).
HasSize(call) == Has(call.params, "num") \/ Has(call.params, "limit")

SizeOf(call) ==
    IF Has(call.params, "num") THEN call.params.num ELSE call.params.limit

FromOf(call) ==
    IF Has(call.params, "start") THEN call.params.start
    ELSE IF Has(call.params, "offset") THEN call.params.offset
    ELSE 0

\* The same request for the page after page n.
NextPageOf(p, n) == [p EXCEPT !.page = ToString(n + 1)]

\* The first provider call the handler makes for the request p.
FirstCall(p, key, c) ==
    IF p.route = "multi" THEN GETStart(p, key, c.now, c.tz).call
    ELSE GETStart_serp(p, key).call

\* C19: the ranges of provider results requested for pages p and p+1 of the
\* same query are disjoint and adjacent: the range a call asks for ends
\* where the range of the call for the next page starts.
C19_PagesAdjacent ==
    (/\ sent # << >>
     /\ HasSize(sent[1])
     /\ ~IsNaN(pageOf(req))
     /\ pageOf(req).val >= 1) =>
        FromOf(sent[1]) + SizeOf(sent[1]) =
            FromOf(FirstCall(NextPageOf(req, pageOf(req).val),
                             SERPAPI_KEY, clockRead))

\* The types the claim about start names, books apart.
StartTypes == {"web", "images", "videos", "news", "shopping"}

\* The call carries key = (page - 1) * 20 exactly when page > 1, and no
\* such parameter otherwise.
CarriesOffset(call, key, page) ==
    IF JsGt(page, Num(1))
    THEN Has(call.params, key) /\ call.params[key] = (page.val - 1) * 20
    ELSE ~Has(call.params, key)

\* C20 as stated: start for web, images, videos, news and shopping, offset
\* for books.
C20_Original ==
    \A i \in DOMAIN sent :
        /\ searchTypeOf(req) \in StartTypes =>
             CarriesOffset(sent[i], "start", pageOf(req))
        /\ searchTypeOf(req) = "books" =>
             CarriesOffset(sent[i], "offset", pageOf(req))

\* C20: for web, images, videos, news and shopping the provider request
\* carries start = (page - 1) * 20 exactly when page > 1 and no start
\* otherwise.  For books the multi-provider route asks Open Library with
\* offset = (page - 1) * 20 under the same condition and never with start;
\* the SerpAPI-only route asks SerpAPI with start under that condition and
\* never with offset.
C20_StartOffset ==
    \A i \in DOMAIN sent :
        /\ searchTypeOf(req) \in StartTypes =>
             CarriesOffset(sent[i], "start", pageOf(req))
        /\ (searchTypeOf(req) = "books" /\ req.route = "multi") =>
             /\ sent[i].provider = "openlibrary"
             /\ CarriesOffset(sent[i], "offset", pageOf(req))
             /\ ~Has(sent[i].params, "start")
        /\ (searchTypeOf(req) = "books" /\ req.route = "serp") =>
             /\ sent[i].provider = "serpapi"
             /\ CarriesOffset(sent[i], "start", pageOf(req))
             /\ ~Has(sent[i].params, "offset")

\* Page 2 of a books search on the SerpAPI-only route starts at 20.
C20_Witness ==
    /\ pc = "await"
    /\ req.route = "serp"
    /\ req.type = "books"
    /\ req.page = "2"
    /\ sent[1].params.start = 20

\* C21: in every success response current_page is at least 1 and, whenever
\* total_pages is at least 1, at most total_pages, whatever page parameter
\* the client sent.
C21_CurrentPageInRange ==
    (pc = "done" /\ IsSuccess(resp)) =>
        LET current == resp.search_metadata.current_page
            pages   == resp.search_metadata.total_pages
        IN  /\ ~IsNaN(current)
            /\ current.val >= 1
            /\ pages >= 1 => current.val <= pages

AdultsAllowed == {"1", "2", "3", "4", "5", "6", "7", "8", "9"}

\* C23: a flights request whose adults parameter is not an integer between
\* 1 and 9 is answered with 400 and reaches no provider; an absent adults
\* parameter is treated as 1; and the adults value forwarded to the
\* provider is always an integer between 1 and 9.
C23_AdultsChecked ==
    (/\ req # NoReq
     /\ req.route = "multi"
     /\ Truthy(req.q)
     /\ Truthy(SERPAPI_KEY)
     /\ req.type = "flights") =>
        /\ (req.adults # NULL /\ req.adults \notin AdultsAllowed) =>
              /\ pc = "done"
              /\ resp.status = 400
              /\ sent = << >>
        /\ \A i \in DOMAIN sent :
              /\ sent[i].params.adults \in AdultsAllowed
              /\ req.adults = NULL => sent[i].params.adults = "1"

\* C24: for a one-way flights request (a flight_type other than '1') the
\* return date is neither checked nor forwarded: the request is answered,
\* or forwarded to the provider, as the same request with any other return
\* date is; the provider request carries no return_date; and the request
\* is never rejected for its return date.
C24_ReturnDateIgnoredOneWay ==
    (/\ req # NoReq
     /\ req.route = "multi"
     /\ req.type = "flights"
     /\ Truthy(req.flight_type)
     /\ req.flight_type # "1") =>
        /\ \A rd \in ReturnDates :
             LET other == GETStart([req EXCEPT !.return_date = rd],
                                   SERPAPI_KEY, clockRead.now, clockRead.tz)
             IN  IF sent = << >>
                 THEN other.kind = "respond" /\ other.resp = resp
                 ELSE other.kind = "await" /\ other.call = sent[1]
        /\ \A i \in DOMAIN sent : ~Has(sent[i].params, "return_date")
        /\ IsError(resp) =>
             resp.error # "Return date must be after departure date."

\* A one-way flight whose return date is before its departure goes to the
\* provider.
C24_Witness ==
    /\ pc = "await"
    /\ req.type = "flights"
    /\ req.flight_type = "2"
    /\ req.outbound_date = "2026-11-20"
    /\ req.return_date = "2026-11-06"
    /\ sent[1].params.engine = "google_flights"

\* ------------------------------------------------------------------------
\* Further properties of the Home page, under SpecHome
\* ------------------------------------------------------------------------

\* C16: once no request is in flight, the results, the total and the page
\* metadata on display are those of the most recently issued search, also
\* when two searches overlap and are answered in the opposite order.
C16_LatestSearchShown == pending = << >> => answered # "earlier"

\* C17: loading is true whenever at least one search request is in flight:
\* of two overlapping searches, the first to be answered does not end it.
C17_LoadingWhileInFlight == pending # << >> => ui_loading

\* C27: pressing Search Flights with a form that passes every check of the
\* button (departure and arrival filled in, a departure date not in the
\* past and, for a round trip, a later return date) either sets an error
\* message or starts a search request.
C27_FlightPressActs ==
    [][(searchFlightsClick /\ flightFormError = "")
         => \/ ui_error' # ""
            \/ Len(pending') = Len(pending) + 1]_vars

\* The request a step starts, if it starts one.
Started == pending'[Len(pending')]

\* C28: a search started with a search type different from the active one
\* is requested with page 1, whatever page argument was passed, and sets
\* currentPage to 1 and the active search type to the new type.
C28_NewTypeStartsAtPageOne ==
    [][(/\ Len(pending') = Len(pending) + 1
        /\ Started.type # ui_activeSearchType)
         => /\ Started.page = 1
            /\ ui_currentPage' = 1
            /\ ui_activeSearchType' = Started.type]_vars

\* A search of another type started while a request for page 2 of the type
\* then active was still in flight.
C28_Witness ==
    /\ Len(pending) = 2
    /\ pending[1].page = 2
    /\ pending[2].type # pending[1].type
    /\ pending[2].page = 1
    /\ pending[2].latest
    /\ ui_currentPage = 1
    /\ ui_activeSearchType = pending[2].type

\* ------------------------------------------------------------------------
\* Properties of handleSearch, under SpecSearchFair
\* ------------------------------------------------------------------------

\* C26: every search the page starts completes: loading returns to false,
\* and the step that ends loading either has replaced the results by those
\* of the response to a request in flight or leaves an error message set.
C26_SearchCompletes ==
    /\ ui_loading ~> ~ui_loading
    /\ [][(ui_loading /\ ~ui_loading')
            => \/ ui_error' # ""
               \/ \E i \in 1..Len(pending) :
                    /\ pending' = Without(pending, i)
                    /\ \E data \in SearchResponses(pending[i]) :
                         ui_results' = data.results]_vars

\* The latest search has been answered with results, no request is in
\* flight and loading is over.
C26_Witness ==
    /\ ui_searched
    /\ ~ui_loading
    /\ pending = << >>
    /\ answered = "latest"
    /\ ui_results > 0
    /\ ui_error = ""

\* ------------------------------------------------------------------------
\* Properties of the airport lookups, under SpecAirports
\* ------------------------------------------------------------------------

\* The four match classes of findAirportByInput for a search term, as sets
\* of table positions, in priority order.
MatchClasses(term) ==
    << { i \in DOMAIN airports : toLowerCase(airports[i].code) = term },
       { i \in DOMAIN airports : toLowerCase(airports[i].city) = term },
       { i \in DOMAIN airports :
           \/ includes(toLowerCase(airports[i].city), term)
           \/ includes(term, toLowerCase(airports[i].city)) },
       { i \in DOMAIN airports : includes(toLowerCase(airports[i].name), term) } >>

Blank(input) == input = NULL \/ trim(input) = ""

\* C25: findAirportByInput returns null for an empty or blank input;
\* otherwise it returns the first table entry, in table order, of the
\* highest-priority non-empty match class among code equal to the trimmed
\* lower-cased input, city equal to it, city containing it or contained in
\* it, and name containing it, and null when no class matches.  (The table
\* is the constant airports: no statement of lib/airports.ts assigns to it
\* or to one of its entries.)
C25_FindAirportByPriority ==
    aq_call.fn = "findAirportByInput" =>
      IF Blank(aq_call.input) THEN aq_result = NoAirport
      ELSE LET classes == MatchClasses(toLowerCase(trim(aq_call.input)))
           IN  IF \A k \in 1..4 : classes[k] = {} THEN aq_result = NoAirport
               ELSE \E k \in 1..4 :
                      /\ classes[k] # {}
                      /\ \A j \in 1..(k - 1) : classes[j] = {}
                      /\ \E i \in classes[k] :
                           /\ \A j \in classes[k] : i <= j
                           /\ aq_result = airports[i]

\* A mixed-case city name that three table entries share: the first of
\* them in table order is returned, no entry having that code.
C25_Witness ==
    /\ aq_call.fn = "findAirportByInput"
    /\ aq_call.input = "New York"
    /\ aq_result # NoAirport
    /\ aq_result.code = "JFK"
    /\ MatchClasses("new york")[1] = {}
    /\ Cardinality(MatchClasses("new york")[2]) > 1

\* The group of getAirportSuggestions an airport falls in for a search
\* term: 1 code prefix, 2 city prefix, 3 city or name substring, 0 none.
GroupOf(airport, term) ==
    IF startsWith(toLowerCase(airport.code), term) THEN 1
    ELSE IF startsWith(toLowerCase(airport.city), term) THEN 2
    ELSE IF \/ includes(toLowerCase(airport.city), term)
            \/ includes(toLowerCase(airport.name), term) THEN 3
    ELSE 0

PositionOf(airport) == CHOOSE i \in DOMAIN airports : airports[i] = airport

TooShort(input) == input = NULL \/ Len(trim(input)) < 2

\* C30: getAirportSuggestions returns an empty list when the trimmed input
\* is shorter than 2 characters; otherwise it returns at most `limit`
\* airports of the table with no airport code repeated, listing code-prefix
\* matches first, then city-prefix matches, then city-or-name substring
\* matches, each group in table order.
C30_SuggestionsRanked ==
    aq_call.fn = "getAirportSuggestions" =>
      IF TooShort(aq_call.input) THEN aq_result = << >>
      ELSE LET term == toLowerCase(trim(aq_call.input))
               found == aq_result
           IN  /\ Len(found) <= aq_call.limit
               /\ \A n \in DOMAIN found :
                    /\ \E i \in DOMAIN airports : airports[i] = found[n]
                    /\ GroupOf(found[n], term) \in 1..3
               /\ \A n, m \in DOMAIN found :
                    n < m =>
                      /\ found[n].code # found[m].code
                      /\ GroupOf(found[n], term) <= GroupOf(found[m], term)
                      /\ GroupOf(found[n], term) = GroupOf(found[m], term)
                           => PositionOf(found[n]) < PositionOf(found[m])

\* A call that the limit cuts short, with suggestions of more than one
\* group in its result.
C30_Witness ==
    /\ aq_call.fn = "getAirportSuggestions"
    /\ ~TooShort(aq_call.input)
    /\ aq_call.limit > 1
    /\ Len(aq_result) = aq_call.limit
    /\ LET term == toLowerCase(trim(aq_call.input))
       IN  /\ GroupOf(aq_result[1], term) < GroupOf(aq_result[Len(aq_result)], term)
           /\ Cardinality({ i \in DOMAIN airports :
                              GroupOf(airports[i], term) > 0 }) > aq_call.limit

\* ------------------------------------------------------------------------
\* Properties of the AirportInput component, under SpecInput
\* ------------------------------------------------------------------------

\* C29: after any sequence of value changes and key presses, selectedIndex
\* is either -1 or a valid index into the current suggestions list.
C29_SelectedIndexValid ==
    \/ ai_selectedIndex = -1
    \/ ai_selectedIndex \in 0..(Len(ai_suggestions) - 1)

=========================================================================
